---- MODULE Spec2Model ----
(***************************************************************************)
(* CommerceApp backend: registration (identity / billing-account           *)
(* consistency), the two checkout flows of the Stripe service, the         *)
(* ownership-checked invoice / payment-method lookups, the invoice and     *)
(* payment-method listings, and the authenticated profile update and       *)
(* account deletion.                                                       *)
(*                                                                         *)
(* The gateway (Stripe) and the datastore (MongoDB) are modelled by the    *)
(* state their calls read and write; every call may fail.                  *)
(***************************************************************************)
EXTENDS Integers, Sequences, FiniteSets, TLC

VARIABLES
    db,           \* persisted Customer documents (the customers collection)
    gwCustomers,  \* billing accounts (Stripe customers) that exist on the gateway
    nextId,       \* number of document ids (_id) handed out
    nextCus,      \* number of customer ids the gateway has handed out
    regCount,     \* register requests received so far
    reg,          \* per request handler: the state of its register attempt
    gwPM,         \* gateway: payment method id -> the customer it is attached to
    gwDefault,    \* gateway: customer id -> invoice_settings.default_payment_method
    gwItems,      \* gateway: invoice items (pending, or swept into an invoice)
    gwInvoices,   \* gateway: invoices, by id (the position in the sequence)
    co,           \* per request handler: the state of its checkout attempt
    gwSent,       \* gateway: the invoices sent by e-mail (sendInvoice)
    lk,           \* per request handler: the state of its invoice / payment method lookup
    gwProfile,    \* gateway: customer id -> the name, phone, address of the customer
    files,        \* storage bucket: the urls of the stored files
    cu,           \* per request handler: the state of its profile / account request
    bk            \* the scheduled backup run: its position, its list and its log

regVars == <<db, gwCustomers, nextId, nextCus, regCount, reg>>

coVars == <<gwPM, gwDefault, gwItems, gwInvoices, co>>

lkVars == <<gwSent, lk>>

cuVars == <<gwProfile, files, cu>>

bkVars == <<bk>>

vars == <<db, gwCustomers, nextId, nextCus, regCount, reg,
          gwPM, gwDefault, gwItems, gwInvoices, co, gwSent, lk,
          gwProfile, files, cu, bk>>

----------------------------------------------------------------------------
(* Bounds *)

\* register requests served in one behaviour
MaxRegs == 3

\* largest amount (in minor units) of a request, and most items of a request
MaxAmount == 2
MaxItems == 2

----------------------------------------------------------------------------
(* JavaScript values *)

Undefined == "undefined"
Null == "null"

\* thrown values: AppError(message, statusCode) and errors of the libraries
Err(type, status, message) == [type |-> type, status |-> status, message |-> message]
NoErr == Err("none", 0, "")
AppError(message, status) == Err("AppError", status, message)

\* a JavaScript value of a request body: its typeof (or "null", "array"), its
\* string content, its number, its array elements
JV(t, str, n, a) == [t |-> t, s |-> str, n |-> n, a |-> a]
JUndef == JV("undefined", "", 0, <<>>)
JNull == JV("null", "", 0, <<>>)
JStr(str) == JV("string", str, 0, <<>>)
JNum(n) == JV("number", "", n, <<>>)
JBool(b) == JV("boolean", "", IF b THEN 1 ELSE 0, <<>>)
JArr(a) == JV("array", "", 0, a)

\* value.length of the strings that occur in requests
StrLen(str) ==
    CASE str = "" -> 0
      [] str = "0" -> 1
      [] str = "2" -> 1
      [] str = "-1" -> 2
      [] str = "us" -> 2
      [] str = "usd" -> 3
      [] str = "eur" -> 3
      [] str = "usdx" -> 4
      [] str = "true" -> 4
      [] str = "pm_A" -> 4
      [] str = "pm_B" -> 4
      [] str = "false" -> 5
      [] str = "pm_new" -> 6
      [] OTHER -> 7

\* Number(value): [nan, n]
NaN == [nan |-> TRUE, n |-> 0]
Num(n) == [nan |-> FALSE, n |-> n]
ToNumber(v) ==
    CASE v.t = "number" -> Num(v.n)
      [] v.t = "boolean" -> Num(v.n)
      [] v.t = "null" -> Num(0)
      [] v.t = "undefined" -> NaN
      [] v.t = "array" -> IF v.a = <<>> THEN Num(0) ELSE NaN
      [] v.t = "string" ->
            CASE v.s = "" -> Num(0)
              [] v.s = "0" -> Num(0)
              [] v.s = "2" -> Num(2)
              [] v.s = "-1" -> Num(0 - 1)
              [] OTHER -> NaN

\* JavaScript truthiness
Truthy(v) ==
    CASE v.t = "undefined" -> FALSE
      [] v.t = "null" -> FALSE
      [] v.t = "number" -> v.n # 0
      [] v.t = "boolean" -> v.n # 0
      [] v.t = "string" -> v.s # ""
      [] OTHER -> TRUE

----------------------------------------------------------------------------
(* Request validation: validate(rules) *)

Rule(field, required, type, minLength, maxLength, min) ==
    [field |-> field, required |-> required, type |-> type,
     minLength |-> minLength, maxLength |-> maxLength, min |-> min]

\* the errors one rule pushes for the value of its field
RuleErrors(rule, value) ==
    LET empty == value.t \in {"undefined", "null"} \/ (value.t = "string" /\ value.s = "")
        absent == value.t \in {"undefined", "null"}
        num == ToNumber(value)
        typeErr ==
            CASE rule.type = "string" /\ value.t # "string" -> <<"must be a string">>
              [] rule.type = "number" /\ value.t # "number" /\ num.nan -> <<"must be a number">>
              [] rule.type = "array" /\ value.t # "array" -> <<"must be an array">>
              [] OTHER -> <<>>
        minLenErr ==
            IF value.t = "string" /\ \E m \in rule.minLength : m # 0 /\ StrLen(value.s) < m
            THEN <<"too short">> ELSE <<>>
        maxLenErr ==
            IF value.t = "string" /\ \E m \in rule.maxLength : m # 0 /\ StrLen(value.s) > m
            THEN <<"too long">> ELSE <<>>
        minErr ==
            IF (value.t = "number" \/ ~num.nan) /\ \E m \in rule.min : num.n < m
            THEN <<"below min">> ELSE <<>>
    IN  IF rule.required /\ empty THEN <<"is required">>
        ELSE IF ~rule.required /\ absent THEN <<>>
        ELSE typeErr \o minLenErr \o maxLenErr \o minErr

RECURSIVE validate(_, _)
\* validate(rules)(req): the errors of all rules, in order; the request is
\* rejected with AppError 400 when there is one
validate(rules, body) ==
    IF rules = <<>> THEN <<>>
    ELSE RuleErrors(Head(rules), body[Head(rules).field]) \o validate(Tail(rules), body)

\* paymentValidation.createPayment
createPaymentRules ==
    << Rule("paymentMethodId", TRUE, "string", {}, {}, {}),
       Rule("amount", TRUE, "number", {}, {}, {1}),
       Rule("currency", FALSE, "string", {3}, {3}, {}),
       Rule("description", FALSE, "string", {}, {500}, {}),
       Rule("savePaymentMethod", FALSE, "string", {}, {}, {}) >>

\* paymentValidation.createPaymentWithItems
createPaymentWithItemsRules ==
    << Rule("paymentMethodId", TRUE, "string", {}, {}, {}),
       Rule("items", TRUE, "array", {}, {}, {}),
       Rule("currency", FALSE, "string", {3}, {3}, {}),
       Rule("savePaymentMethod", FALSE, "string", {}, {}, {}) >>

----------------------------------------------------------------------------
(* Checkout: the data of the gateway and of a checkout request *)

CoProcs == {"c1", "c2"}

\* payment methods known to the gateway
PMs == {"pm_A", "pm_B", "pm_new"}

NoCaller == [id |-> 0, email |-> "", stripeCustomerId |-> Undefined,
             profilePictureUrl |-> Undefined]

NoBody == [paymentMethodId |-> JUndef, amount |-> JUndef, currency |-> JUndef,
           description |-> JUndef, savePaymentMethod |-> JUndef, items |-> JUndef]

NoData == [customerId |-> Undefined, paymentMethodId |-> JUndef, amount |-> JUndef,
           items |-> <<>>, currency |-> JUndef, savePaymentMethod |-> FALSE]

\* a handler that serves no checkout request
CoOff ==
    [pc |-> "off", flow |-> "none", caller |-> NoCaller, body |-> NoBody,
     data |-> NoData, calls |-> <<>>, inv |-> 0, err |-> NoErr, thrown |-> NoErr,
     status |-> 0, verrors |-> <<>>]

\* handlers of getInvoice / sendInvoice / deletePaymentMethod requests
LkProcs == {"l1", "l2"}

\* a handler that serves no lookup request
LkOff ==
    [pc |-> "off", op |-> "none", caller |-> NoCaller, inv |-> 0, pm |-> "",
     found |-> FALSE, owner |-> Undefined, acted |-> FALSE, exposed |-> 0,
     thrown |-> NoErr, status |-> 0, invoice |-> Null, body |-> Null,
     out |-> "none"]

\* handlers of updateProfile / deleteAccount requests
CuProcs == {"u1", "u2"}

\* the keys of the request bodies of PATCH /profile; a key that the body does
\* not have is Undefined
BodyKeys == {"name", "address", "phone", "email", "password", "stripeCustomerId",
             "profilePictureUrl"}
NoKeys == [k \in BodyKeys |-> Undefined]

\* a handler that serves no profile or account request
CuOff ==
    [pc |-> "off", op |-> "none", token |-> "none", tokenId |-> 0, body |-> NoKeys,
     customer |-> Null, ran |-> FALSE, updates |-> NoKeys, calls |-> <<>>,
     thrown |-> NoErr, status |-> 0, message |-> "", sent |-> {}, file |-> FALSE]

\* no profile or account request is served
CuIdle ==
    /\ gwProfile = <<>>
    /\ files = {}
    /\ cu = [p \in CuProcs |-> CuOff]

\* no backup run is in progress
BkOff ==
    [pc |-> "off", collections |-> <<>>, done |-> 0, configured |-> FALSE,
     log |-> <<>>, raised |-> FALSE]

----------------------------------------------------------------------------
(* Registration: authController.register *)

RegProcs == {"r1", "r2"}

\* e-mail addresses as the client sends them
RawEmails == {"a@x.com", "A@x.com", "b@x.com"}

\* the schema's email setters (lowercase: true, trim: true)
Lower(e) == IF e = "A@x.com" THEN "a@x.com" ELSE e

\* gateway customer ids, in the order the gateway hands them out
CusIds == <<"cus_1", "cus_2", "cus_3", "cus_4", "cus_5", "cus_6">>

RegIdle ==
    [pc |-> "idle", email |-> "", sid |-> Undefined, doc |-> 0, existed |-> FALSE,
     failedAt |-> "none", caught |-> NoErr, thrown |-> NoErr, status |-> 0,
     delCalls |-> <<>>]

\* Customer.findOne({ email }) without the schema's setters applied to the filter
findOne_NoCast(email) == {c \in db : c.email = email}

\* Customer.findOne({ email }): the filter is cast by the schema (email is
\* lowercased), the match is on the unique email
findOne(email) == {c \in db : c.email = Lower(email)}

\* stripeService.deleteCustomer rethrowing the gateway's failure
deleteCustomer_Rethrows(gwOk, pending) ==
    IF gwOk THEN pending ELSE AppError("Failed to delete Stripe customer", 500)

\* stripeService.deleteCustomer: a gateway failure is logged, not thrown; the
\* error the caller goes on with is the one it already holds
deleteCustomer(gwOk, pending) == pending

\* a register request arrives (body validated by customerValidation.create)
RegStart(p) ==
    /\ reg[p].pc \in {"idle", "done"}
    /\ regCount < MaxRegs
    /\ \E e \in RawEmails :
         reg' = [reg EXCEPT ![p] = [RegIdle EXCEPT !.pc = "findOne", !.email = e]]
    /\ regCount' = regCount + 1
    /\ UNCHANGED <<db, gwCustomers, nextId, nextCus>>
    /\ UNCHANGED <<coVars, lkVars, bkVars, cuVars>>

\* lines 11-15: existing customer -> AppError 400
RegFindOne(p) ==
    /\ reg[p].pc = "findOne"
    /\ LET existing == findOne(reg[p].email)
           seen == \E c \in db : c.email = Lower(reg[p].email)
       IN  reg' = [reg EXCEPT ![p] =
                IF existing # {}
                THEN [@ EXCEPT !.pc = "done", !.existed = seen,
                               !.thrown = AppError("Email already registered", 400)]
                ELSE [@ EXCEPT !.pc = "createCustomer", !.existed = seen]]
    /\ UNCHANGED <<db, gwCustomers, nextId, nextCus, regCount>>
    /\ UNCHANGED <<coVars, lkVars, bkVars, cuVars>>

\* lines 17-23 and stripeService.createCustomer: the gateway creates the
\* billing account, or the call fails and AppError 500 is thrown
RegCreateCustomer(p) ==
    /\ reg[p].pc = "createCustomer"
    /\ \E ok \in BOOLEAN :
         IF ok
         THEN /\ nextCus < Len(CusIds)
              /\ nextCus' = nextCus + 1
              /\ gwCustomers' = gwCustomers \cup {CusIds[nextCus + 1]}
              /\ reg' = [reg EXCEPT ![p].pc = "save", ![p].sid = CusIds[nextCus + 1]]
         ELSE /\ reg' = [reg EXCEPT ![p].pc = "done",
                            ![p].thrown = AppError("Failed to create Stripe customer", 500)]
              /\ UNCHANGED <<nextCus, gwCustomers>>
    /\ UNCHANGED <<db, nextId, regCount>>
    /\ UNCHANGED <<coVars, lkVars, bkVars, cuVars>>

\* the unique index on stripeCustomerId alone
DuplicateKey_NoEmailIndex(doc) ==
    \E c \in db : c.stripeCustomerId = doc.stripeCustomerId

\* the unique indexes of the schema (email; stripeCustomerId, sparse): the
\* datastore rejects a document whose key another document holds
DuplicateKey(doc) ==
    \E c \in db : \/ c.email = doc.email
                  \/ c.stripeCustomerId = doc.stripeCustomerId

\* lines 26-36: new Customer(...).save(); the unique indexes on email and
\* stripeCustomerId reject a duplicate, and the write itself may fail
RegSave(p) ==
    /\ reg[p].pc = "save"
    /\ LET doc == [id |-> nextId + 1, email |-> Lower(reg[p].email),
                   stripeCustomerId |-> reg[p].sid, profilePictureUrl |-> Undefined,
                   name |-> "Ann", address |-> "1 St", phone |-> "111",
                   password |-> "hash"]
           dup == DuplicateKey(doc)
       IN  \E ok \in BOOLEAN :
             IF ok /\ ~dup
             THEN /\ db' = db \cup {doc}
                  /\ nextId' = nextId + 1
                  /\ reg' = [reg EXCEPT ![p].pc = "token", ![p].doc = doc.id]
             ELSE /\ reg' = [reg EXCEPT ![p].pc = "cleanup", ![p].failedAt = "save",
                                ![p].caught = IF dup
                                              THEN Err("MongoServerError", 0, "E11000 duplicate key")
                                              ELSE Err("MongooseError", 0, "save failed")]
                  /\ UNCHANGED <<db, nextId>>
    /\ UNCHANGED <<gwCustomers, nextCus, regCount>>
    /\ UNCHANGED <<coVars, lkVars, bkVars, cuVars>>

\* lines 38-39: customer.generateAuthToken() (jwt.sign may throw)
RegToken(p) ==
    /\ reg[p].pc = "token"
    /\ \E ok \in BOOLEAN :
         reg' = [reg EXCEPT ![p] =
                   IF ok THEN [@ EXCEPT !.pc = "respond"]
                   ELSE [@ EXCEPT !.pc = "cleanup", !.failedAt = "token",
                                  !.caught = Err("JsonWebTokenError", 0, "sign failed")]]
    /\ UNCHANGED <<db, gwCustomers, nextId, nextCus, regCount>>
    /\ UNCHANGED <<coVars, lkVars, bkVars, cuVars>>

\* lines 41-52: res.status(201).json(...)
RegRespond(p) ==
    /\ reg[p].pc = "respond"
    /\ \E ok \in BOOLEAN :
         reg' = [reg EXCEPT ![p] =
                   IF ok THEN [@ EXCEPT !.pc = "done", !.status = 201]
                   ELSE [@ EXCEPT !.pc = "cleanup", !.failedAt = "respond",
                                  !.caught = Err("TypeError", 0, "response failed")]]
    /\ UNCHANGED <<db, gwCustomers, nextId, nextCus, regCount>>
    /\ UNCHANGED <<coVars, lkVars, bkVars, cuVars>>

\* lines 53-57: the catch block deletes the gateway customer and rethrows
RegCleanup(p) ==
    /\ reg[p].pc = "cleanup"
    /\ \E gwOk \in BOOLEAN :
         /\ gwCustomers' = IF gwOk THEN gwCustomers \ {reg[p].sid} ELSE gwCustomers
         /\ reg' = [reg EXCEPT ![p].pc = "done",
                       ![p].delCalls = Append(@, [id |-> reg[p].sid, ok |-> gwOk]),
                       ![p].thrown = deleteCustomer(gwOk, reg[p].caught)]
    /\ UNCHANGED <<db, nextId, nextCus, regCount>>
    /\ UNCHANGED <<coVars, lkVars, bkVars, cuVars>>

InitRegister ==
    /\ db = {}
    /\ gwCustomers = {}
    /\ nextId = 0
    /\ nextCus = 0
    /\ regCount = 0
    /\ reg = [p \in RegProcs |-> RegIdle]
    /\ gwPM = [m \in PMs |-> Null]
    /\ gwDefault = [c \in {} |-> Null]
    /\ gwItems = {}
    /\ gwInvoices = <<>>
    /\ co = [p \in CoProcs |-> CoOff]
    /\ gwSent = {}
    /\ lk = [q \in LkProcs |-> LkOff]
    /\ CuIdle
    /\ bk = BkOff

NextRegister ==
    \E p \in RegProcs :
        \/ RegStart(p)
        \/ RegFindOne(p)
        \/ RegCreateCustomer(p)
        \/ RegSave(p)
        \/ RegToken(p)
        \/ RegRespond(p)
        \/ RegCleanup(p)

SpecRegister == InitRegister /\ [][NextRegister]_vars

----------------------------------------------------------------------------
(* Claims on registration *)

RegDone(p) == reg[p].pc = "done"

\* C1: a register attempt whose email already belongs to a persisted Customer
\* ends with AppError 400 'Email already registered', persists no Customer and
\* creates no billing account; and every attempt that ends with an error after
\* creating a billing account has called the compensating delete on that account.
C1_DuplicateEmailRejected ==
    \A p \in RegProcs :
        /\ reg[p].existed =>
               /\ reg[p].pc = "done"
               /\ reg[p].thrown = AppError("Email already registered", 400)
               /\ reg[p].doc = 0
               /\ reg[p].sid = Undefined
               /\ reg[p].delCalls = <<>>
        /\ (RegDone(p) /\ reg[p].thrown # NoErr /\ reg[p].sid # Undefined) =>
               /\ Len(reg[p].delCalls) = 1
               /\ reg[p].delCalls[1].id = reg[p].sid

\* a second register with an e-mail that differs only in case from a persisted one
C1_Witness ==
    \E p \in RegProcs :
        /\ RegDone(p) /\ reg[p].existed /\ reg[p].email = "A@x.com"
        /\ \E q \in RegProcs \ {p} : RegDone(q) /\ reg[q].failedAt = "save"

\* C2: when the billing account was created and persisting the Customer fails,
\* deleteCustomer is called exactly once, with the id of the account just
\* created, and the error thrown to the caller is the persistence error, also
\* when the delete itself fails.
C2_CompensatingDelete ==
    \A p \in RegProcs :
        (RegDone(p) /\ reg[p].failedAt = "save") =>
            /\ Len(reg[p].delCalls) = 1
            /\ reg[p].delCalls[1].id = reg[p].sid
            /\ reg[p].sid # Undefined
            /\ reg[p].thrown = reg[p].caught
            /\ reg[p].thrown.type \in {"MongoServerError", "MongooseError"}

\* the save failed and the compensating delete failed as well
C2_Witness ==
    \E p \in RegProcs :
        /\ RegDone(p) /\ reg[p].failedAt = "save"
        /\ Len(reg[p].delCalls) = 1 /\ ~reg[p].delCalls[1].ok
        /\ reg[p].sid \in gwCustomers

\* C3: after a register attempt has completed, whichever of the steps after
\* the billing account's creation failed, the Customer it persisted (if any)
\* refers to a billing account that exists on the gateway.
C3_NoDanglingReference ==
    \A p \in RegProcs :
        RegDone(p) =>
            \A c \in db : c.id = reg[p].doc => c.stripeCustomerId \in gwCustomers

\* the two attempts have completed, and nothing but the other attempt made
\* either fail: no gateway or datastore outage, every compensating delete
\* succeeded, and no Customer registered earlier holds the email
RacePair(p, q) ==
    /\ p # q
    /\ RegDone(p) /\ RegDone(q)
    /\ reg[p].email # "" /\ Lower(reg[p].email) = Lower(reg[q].email)
    /\ \A r \in {p, q} :
           /\ reg[r].thrown \in {NoErr, AppError("Email already registered", 400),
                                  Err("MongoServerError", 0, "E11000 duplicate key")}
           /\ \A k \in 1..Len(reg[r].delCalls) : reg[r].delCalls[k].ok
    /\ \A c \in db : c.email = Lower(reg[p].email) => c.id \in {reg[p].doc, reg[q].doc}

\* C21: two register attempts with the same email, in every interleaving of
\* their steps: at no time do two persisted Customers hold the same email; and
\* once both attempts have completed (nothing but the race failing, the
\* compensating delete succeeding), one of them has persisted the Customer, the
\* other has ended with an error and persisted nothing, and exactly one billing
\* account created by the two still exists.
C21_ConcurrentRegister ==
    /\ \A c, d \in db : c.email = d.email => c = d
    /\ \A p, q \in RegProcs :
           RacePair(p, q) =>
               /\ Cardinality({c \in db : c.id \in {reg[p].doc, reg[q].doc}}) = 1
               /\ Cardinality({r \in {p, q} : reg[r].thrown # NoErr}) = 1
               /\ \A r \in {p, q} : reg[r].thrown # NoErr => reg[r].doc = 0
               /\ Cardinality({reg[p].sid, reg[q].sid} \cap gwCustomers) = 1

\* both attempts passed the look-up and created a billing account; the save of
\* the second was rejected by the unique index and its account deleted
C21_Witness ==
    \E p, q \in RegProcs :
        /\ RacePair(p, q)
        /\ reg[p].status = 201 /\ reg[p].sid \in gwCustomers
        /\ ~reg[q].existed /\ reg[q].failedAt = "save"
        /\ reg[q].caught = Err("MongoServerError", 0, "E11000 duplicate key")
        /\ reg[q].sid # Undefined /\ reg[q].sid \notin gwCustomers

----------------------------------------------------------------------------
(* Checkout: stripeController.createPayment / createPaymentWithItems and   *)
(* stripeService.createPaymentWithInvoice / createPaymentWithItems         *)

\* outcomes of a gateway call: success, a card-decline error, another failure
GwOutcomes == {"ok", "card", "api"}

GwError(out) ==
    IF out = "card" THEN Err("StripeCardError", 402, "Your card was declined.")
    ELSE Err("StripeAPIError", 500, "gateway failure")

\* an entry of a handler's log of issued gateway calls; owner is the customer
\* the payment method was attached to when the call was issued
Call(op, pm, owner, out) == [op |-> op, pm |-> pm, owner |-> owner, out |-> out]

\* the order of the awaited steps with pay issued before finalizeInvoice
NextStep_PayFirst(pc) ==
    CASE pc = "attach" -> "setDefault"
      [] pc = "setDefault" -> "items"
      [] pc = "items" -> "createInvoice"
      [] pc = "createInvoice" -> "pay"
      [] pc = "pay" -> "finalize"
      [] pc = "finalize" -> "retrieve"
      [] pc = "retrieve" -> "respond"

\* the order of the awaited steps of both service functions
NextStep(pc) ==
    CASE pc = "attach" -> "setDefault"
      [] pc = "setDefault" -> "items"
      [] pc = "items" -> "createInvoice"
      [] pc = "createInvoice" -> "finalize"
      [] pc = "finalize" -> "pay"
      [] pc = "pay" -> "retrieve"
      [] pc = "retrieve" -> "respond"

\* saving the payment method made best-effort: a rejected attach or
\* set-default is ignored and the attempt goes on
AfterCall_Swallow(pc, out) ==
    IF out = "ok" \/ pc \in {"attach", "setDefault"} THEN NextStep(pc) ELSE "catch"

\* await inside the try block: a rejected call jumps to the catch block
AfterCall(pc, out) == IF out = "ok" THEN NextStep(pc) ELSE "catch"

\* the handler after an awaited gateway call `op` that ended with `out`
Awaited(p, op, out) ==
    [co[p] EXCEPT
        !.calls = Append(@, Call(op, co[p].data.paymentMethodId.s,
                                 gwPM[co[p].data.paymentMethodId.s], out)),
        !.pc = AfterCall(co[p].pc, out),
        !.err = IF out = "ok" THEN @ ELSE GwError(out)]

\* the flag taken by truthiness of the request field
SaveFlag_Truthy(v) == Truthy(v)

\* savePaymentMethod === 'true'
SaveFlag(v) == v = JStr("true")

\* router: paymentValidation.createPayment / createPaymentWithItems
CoValidate(p) ==
    /\ co[p].pc = "validate"
    /\ LET errors == IF co[p].flow = "pi"
                     THEN validate(createPaymentRules, co[p].body)
                     ELSE validate(createPaymentWithItemsRules, co[p].body)
       IN  co' = [co EXCEPT ![p] =
                    IF errors # <<>>
                    THEN [@ EXCEPT !.pc = "done", !.verrors = errors,
                                   !.thrown = AppError("validation errors", 400)]
                    ELSE [@ EXCEPT !.pc = "controller"]]
    /\ UNCHANGED <<gwPM, gwDefault, gwItems, gwInvoices>>
    /\ UNCHANGED <<regVars, lkVars, bkVars, cuVars>>

\* the items of the request body as the service reads them
ItemsOf(body) == IF body.items.t = "array" THEN body.items.a ELSE <<>>

\* the check left out
NoBillingAccount_Never(customer) == FALSE

\* !customer || !customer.stripeCustomerId (req.customer is set by
\* authenticateToken)
NoBillingAccount(customer) == customer.stripeCustomerId \in {Undefined, Null, ""}

\* stripeController.createPayment, lines 8-22
CreatePaymentController(p) ==
    /\ co[p].pc = "controller"
    /\ co[p].flow = "pi"
    /\ LET b == co[p].body
           sid == co[p].caller.stripeCustomerId
       IN  co' = [co EXCEPT ![p] =
                    IF NoBillingAccount(co[p].caller)
                    THEN [@ EXCEPT !.pc = "done",
                             !.thrown = AppError("Customer not found or no Stripe ID", 404)]
                    ELSE [@ EXCEPT
                             !.pc = IF SaveFlag(b.savePaymentMethod)
                                    THEN "attach" ELSE "items",
                             !.data = [customerId |-> sid,
                                       paymentMethodId |-> b.paymentMethodId,
                                       amount |-> b.amount,
                                       items |-> <<>>,
                                       currency |-> IF b.currency.t = "undefined"
                                                    THEN JStr("usd") ELSE b.currency,
                                       savePaymentMethod |->
                                           SaveFlag(b.savePaymentMethod)]]]
    /\ UNCHANGED <<gwPM, gwDefault, gwItems, gwInvoices>>
    /\ UNCHANGED <<regVars, lkVars, bkVars, cuVars>>

\* the check of the array alone
NoItems_ArrayOnly(items) == items.t # "array"

\* line 40: !Array.isArray(items) || items.length === 0
NoItems(items) == items.t # "array" \/ Len(items.a) = 0

\* stripeController.createPaymentWithItems, lines 33-50
CreatePaymentWithItemsController(p) ==
    /\ co[p].pc = "controller"
    /\ co[p].flow = "pw"
    /\ LET b == co[p].body
           sid == co[p].caller.stripeCustomerId
       IN  co' = [co EXCEPT ![p] =
                    IF NoBillingAccount(co[p].caller)
                    THEN [@ EXCEPT !.pc = "done",
                             !.thrown = AppError("Customer not found or no Stripe ID", 404)]
                    ELSE IF NoItems(b.items)
                    THEN [@ EXCEPT !.pc = "done",
                             !.thrown = AppError("Items array is required and must not be empty", 400)]
                    ELSE [@ EXCEPT
                             !.pc = IF SaveFlag(b.savePaymentMethod)
                                    THEN "attach" ELSE "items",
                             !.data = [customerId |-> sid,
                                       paymentMethodId |-> b.paymentMethodId,
                                       amount |-> JUndef,
                                       items |-> b.items.a,
                                       currency |-> IF b.currency.t = "undefined"
                                                    THEN JStr("usd") ELSE b.currency,
                                       savePaymentMethod |->
                                           SaveFlag(b.savePaymentMethod)]]]
    /\ UNCHANGED <<gwPM, gwDefault, gwItems, gwInvoices>>
    /\ UNCHANGED <<regVars, lkVars, bkVars, cuVars>>

\* stripe.paymentMethods.attach(paymentMethodId, { customer }): the gateway
\* attaches a method that is attached to no other customer
Attach(p) ==
    /\ co[p].pc = "attach"
    /\ LET m == co[p].data.paymentMethodId.s
           c == co[p].data.customerId
       IN  \E out \in GwOutcomes :
             /\ out = "ok" => gwPM[m] \in {Null, c}
             /\ gwPM' = IF out = "ok" THEN [gwPM EXCEPT ![m] = c] ELSE gwPM
             /\ co' = [co EXCEPT ![p] = Awaited(p, "attach", out)]
    /\ UNCHANGED <<gwDefault, gwItems, gwInvoices>>
    /\ UNCHANGED <<regVars, lkVars, bkVars, cuVars>>

\* stripe.customers.update(customerId, { invoice_settings: { default_payment_method } })
SetDefault(p) ==
    /\ co[p].pc = "setDefault"
    /\ LET m == co[p].data.paymentMethodId.s
           c == co[p].data.customerId
       IN  \E out \in GwOutcomes :
             /\ gwDefault' = IF out = "ok" THEN [gwDefault EXCEPT ![c] = m] ELSE gwDefault
             /\ co' = [co EXCEPT ![p] = Awaited(p, "setDefault", out)]
    /\ UNCHANGED <<gwPM, gwItems, gwInvoices>>
    /\ UNCHANGED <<regVars, lkVars, bkVars, cuVars>>

\* an invoice item created without the quantity of the request's item
NewItem_NoQuantity(p, k, amount, quantity) ==
    [id |-> <<p, k>>, customer |-> co[p].data.customerId,
     amount |-> amount, currency |-> co[p].data.currency.s,
     quantity |-> 1, invoice |-> 0, by |-> p]

\* the invoice item the gateway stores for stripe.invoiceItems.create; its id
\* is opaque: here the handler and the position of the call in its log
NewItem(p, k, amount, quantity) ==
    [id |-> <<p, k>>, customer |-> co[p].data.customerId,
     amount |-> amount, currency |-> co[p].data.currency.s,
     quantity |-> quantity, invoice |-> 0, by |-> p]

\* createPaymentWithInvoice, lines 246-252: one invoice item, awaited
CreateItem(p) ==
    /\ co[p].pc = "items"
    /\ co[p].flow = "pi"
    /\ \E out \in GwOutcomes :
         /\ gwItems' = IF out = "ok"
                       THEN gwItems \cup {NewItem(p, Len(co[p].calls) + 1,
                                                  ToNumber(co[p].data.amount).n, 1)}
                       ELSE gwItems
         /\ co' = [co EXCEPT ![p] = Awaited(p, "item", out)]
    /\ UNCHANGED <<gwPM, gwDefault, gwInvoices>>
    /\ UNCHANGED <<regVars, lkVars, bkVars, cuVars>>

\* createPaymentWithItems, lines 311-322: data.items.map(...) issues one
\* invoiceItems.create per item, all before Promise.all is awaited
\* (Promise.all of no promise resolves at once)
IssueItems(p) ==
    /\ co[p].pc = "items"
    /\ co[p].flow = "pw"
    /\ co' = [co EXCEPT ![p].pc = IF co[p].data.items = <<>>
                                  THEN NextStep("items") ELSE "itemsWait",
                 ![p].calls = @ \o [k \in 1..Len(co[p].data.items) |->
                                      Call("item", co[p].data.paymentMethodId.s,
                                           gwPM[co[p].data.paymentMethodId.s], "pending")]]
    /\ UNCHANGED <<gwPM, gwDefault, gwItems, gwInvoices>>
    /\ UNCHANGED <<regVars, lkVars, bkVars, cuVars>>

\* the position in data.items of the call logged at position k
ItemIndex(p, k) == Cardinality({j \in 1..k : co[p].calls[j].op = "item"})

\* quantity: item.quantity || 1
QuantityOf(item) == IF Truthy(item.quantity) THEN item.quantity.n ELSE 1

\* resolved as soon as one of the calls has succeeded
PromiseAll_Any(calls) ==
    \E j \in 1..Len(calls) : calls[j].op = "item" /\ calls[j].out = "ok"

\* Promise.all(...) resolves when every call of the attempt has succeeded
PromiseAll(calls) == \A j \in 1..Len(calls) : calls[j].out = "ok"

\* one of the invoiceItems.create calls in flight completes; Promise.all
\* rejects on the first failure and resolves when every call has succeeded
ItemDone(p, k) ==
    /\ k \in 1..Len(co[p].calls)
    /\ co[p].calls[k].op = "item"
    /\ co[p].calls[k].out = "pending"
    /\ LET item == co[p].data.items[ItemIndex(p, k)]
       IN  \E out \in GwOutcomes :
             /\ gwItems' = IF out = "ok"
                           THEN gwItems \cup {NewItem(p, k, item.amount, QuantityOf(item))}
                           ELSE gwItems
             /\ LET calls2 == [co[p].calls EXCEPT ![k].out = out]
                    allOk == PromiseAll(calls2)
                IN  co' = [co EXCEPT ![p] =
                        IF co[p].pc # "itemsWait" THEN [@ EXCEPT !.calls = calls2]
                        ELSE IF out # "ok"
                        THEN [@ EXCEPT !.calls = calls2, !.pc = "catch", !.err = GwError(out)]
                        ELSE IF allOk
                        THEN [@ EXCEPT !.calls = calls2, !.pc = NextStep("items")]
                        ELSE [@ EXCEPT !.calls = calls2]]
    /\ UNCHANGED <<gwPM, gwDefault, gwInvoices>>
    /\ UNCHANGED <<regVars, lkVars, bkVars, cuVars>>

\* stripe.invoices.create({ customer, ... }): the gateway puts the customer's
\* pending invoice items on the new draft invoice
CreateInvoice(p) ==
    /\ co[p].pc = "createInvoice"
    /\ LET c == co[p].data.customerId
           id == Len(gwInvoices) + 1
       IN  \E out \in GwOutcomes :
             /\ IF out = "ok"
                THEN /\ gwInvoices' = Append(gwInvoices,
                            [customer |-> c, status |-> "draft", amount_paid |-> 0,
                             pm |-> Null, by |-> p])
                     /\ gwItems' = {IF i.customer = c /\ i.invoice = 0
                                    THEN [i EXCEPT !.invoice = id] ELSE i : i \in gwItems}
                ELSE UNCHANGED <<gwInvoices, gwItems>>
             /\ co' = [co EXCEPT ![p] =
                         [Awaited(p, "createInvoice", out) EXCEPT
                             !.inv = IF out = "ok" THEN id ELSE @]]
    /\ UNCHANGED <<gwPM, gwDefault>>
    /\ UNCHANGED <<regVars, lkVars, bkVars, cuVars>>

\* stripe.invoices.finalizeInvoice(invoice.id)
FinalizeInvoice(p) ==
    /\ co[p].pc = "finalize"
    /\ \E out \in GwOutcomes :
         /\ out = "ok" => gwInvoices[co[p].inv].status = "draft"
         /\ gwInvoices' = IF out = "ok"
                          THEN [gwInvoices EXCEPT ![co[p].inv].status = "open"]
                          ELSE gwInvoices
         /\ co' = [co EXCEPT ![p] = Awaited(p, "finalize", out)]
    /\ UNCHANGED <<gwPM, gwDefault, gwItems>>
    /\ UNCHANGED <<regVars, lkVars, bkVars, cuVars>>

\* amount of one invoice line
LineAmount(i) == i.amount * i.quantity

RECURSIVE SumLines(_)
SumLines(S) ==
    IF S = {} THEN 0
    ELSE LET i == CHOOSE x \in S : TRUE IN LineAmount(i) + SumLines(S \ {i})

\* the total of an invoice: the sum of its lines
InvoiceTotal(id) == SumLines({i \in gwItems : i.invoice = id})

\* stripe.invoices.pay(invoice.id, { payment_method })
PayInvoice(p) ==
    /\ co[p].pc = "pay"
    /\ \E out \in GwOutcomes :
         /\ out = "ok" => gwInvoices[co[p].inv].status = "open"
         /\ gwInvoices' = IF out = "ok"
                          THEN [gwInvoices EXCEPT
                                   ![co[p].inv].status = "paid",
                                   ![co[p].inv].amount_paid = InvoiceTotal(co[p].inv),
                                   ![co[p].inv].pm = co[p].data.paymentMethodId.s]
                          ELSE gwInvoices
         /\ co' = [co EXCEPT ![p] = Awaited(p, "pay", out)]
    /\ UNCHANGED <<gwPM, gwDefault, gwItems>>
    /\ UNCHANGED <<regVars, lkVars, bkVars, cuVars>>

\* stripe.paymentIntents.retrieve(paidInvoice.payment_intent)
RetrieveIntent(p) ==
    /\ co[p].pc = "retrieve"
    /\ \E out \in GwOutcomes :
         co' = [co EXCEPT ![p] = Awaited(p, "retrieve", out)]
    /\ UNCHANGED <<gwPM, gwDefault, gwItems, gwInvoices>>
    /\ UNCHANGED <<regVars, lkVars, bkVars, cuVars>>

\* the service returns its result and the controller answers res.json(...)
CoRespond(p) ==
    /\ co[p].pc = "respond"
    /\ co' = [co EXCEPT ![p].pc = "done", ![p].status = 200]
    /\ UNCHANGED <<gwPM, gwDefault, gwItems, gwInvoices>>
    /\ UNCHANGED <<regVars, lkVars, bkVars, cuVars>>

\* a catch block that removes the pending invoice items of the attempt
CoCatch_Rollback(p) ==
    /\ co[p].pc = "catch"
    /\ co' = [co EXCEPT ![p].pc = "done",
                 ![p].calls = Append(@, Call("deleteItems", "", Null, "ok")),
                 ![p].thrown = AppError("Payment processing failed", 500)]
    /\ gwItems' = {i \in gwItems : ~(i.by = p /\ i.invoice = 0)}
    /\ UNCHANGED <<gwPM, gwDefault, gwInvoices>>
    /\ UNCHANGED <<regVars, lkVars, bkVars, cuVars>>

\* a catch block that passes the gateway's message on for every failure
CoCatch_Leak(p) ==
    /\ co[p].pc = "catch"
    /\ co' = [co EXCEPT ![p].pc = "done",
                 ![p].thrown = AppError(co[p].err.message,
                                        IF co[p].err.type = "StripeCardError" THEN 400 ELSE 500)]
    /\ UNCHANGED <<gwPM, gwDefault, gwItems, gwInvoices>>
    /\ UNCHANGED <<regVars, lkVars, bkVars, cuVars>>

\* the catch block of both service functions: a StripeCardError becomes
\* AppError(error.message, 400), anything else AppError 500
CoCatch(p) ==
    /\ co[p].pc = "catch"
    /\ co' = [co EXCEPT ![p].pc = "done",
                 ![p].thrown = IF co[p].err.type = "StripeCardError"
                               THEN AppError(co[p].err.message, 400)
                               ELSE AppError("Payment processing failed", 500)]
    /\ UNCHANGED <<gwPM, gwDefault, gwItems, gwInvoices>>
    /\ UNCHANGED <<regVars, lkVars, bkVars, cuVars>>

\* Customer documents of the callers (req.customer, set by authenticateToken)
DocA == [id |-> 1, email |-> "a@x.com", stripeCustomerId |-> "cus_A",
         profilePictureUrl |-> Undefined]
DocB == [id |-> 2, email |-> "b@x.com", stripeCustomerId |-> "cus_B",
         profilePictureUrl |-> Undefined]
DocN == [id |-> 3, email |-> "n@x.com", stripeCustomerId |-> Undefined,
         profilePictureUrl |-> Undefined]

\* request bodies
FlatBody(pm, amount, save) ==
    [NoBody EXCEPT !.paymentMethodId = JStr(pm), !.amount = amount,
                   !.savePaymentMethod = save]
ItemsBody(pm, items, save) ==
    [NoBody EXCEPT !.paymentMethodId = JStr(pm), !.items = items,
                   !.savePaymentMethod = save]

Request(flow, caller, body) == [flow |-> flow, caller |-> caller, body |-> body]

\* payment method and savePaymentMethod of a request
PmSave == { <<"pm_A", JUndef>>, <<"pm_B", JUndef>>,
            <<"pm_new", JStr("true")>>, <<"pm_B", JStr("true")>> }

Item(amount, quantity) == [amount |-> amount, quantity |-> quantity]

ItemChoices ==
    {Item(a, JUndef) : a \in 0..MaxAmount} \cup {Item(MaxAmount, JNum(2))}

\* the items of one request are created concurrently and independently of
\* each other, so the lists are taken up to the order of their items
ItemRank(item) == 2 * item.amount + (IF item.quantity = JUndef THEN 0 ELSE 1)

\* the item lists of 0..MaxItems items
ItemLists ==
    UNION {{l \in [1..n -> ItemChoices] :
               \A k \in 1..(n - 1) : ItemRank(l[k]) <= ItemRank(l[k + 1])} :
           n \in 0..MaxItems}

\* the requests of the first handler
CoRequests ==
    {Request("pi", DocA, FlatBody(ps[1], JNum(a), ps[2])) :
        ps \in PmSave, a \in (0 - 1)..MaxAmount}
    \cup {Request("pw", DocA, ItemsBody("pm_A", JArr(l), JUndef)) : l \in ItemLists}
    \cup {Request("pw", DocA,
                  ItemsBody(ps[1], JArr(<<Item(1, JUndef), Item(MaxAmount, JNum(2))>>), ps[2])) :
            ps \in PmSave}
    \cup {Request("pi", DocN, FlatBody("pm_A", JNum(1), JUndef))}
    \cup {Request("pi", DocA, FlatBody("pm_new", JNum(1), s)) :
            s \in {JStr("false"), JBool(TRUE)}}

\* the requests of the handler that runs concurrently with it
CoRequests2 ==
    {Request("pi", c, FlatBody("pm_A", JNum(1), JUndef)) : c \in {DocA, DocB}}
    \cup {Request("pw", DocA, ItemsBody("pm_A", JArr(<<Item(MaxAmount, JUndef)>>), JUndef))}

Arrived(r) == [CoOff EXCEPT !.pc = "validate", !.flow = r.flow, !.caller = r.caller,
                            !.body = r.body]

InitGateway ==
    /\ gwCustomers = {"cus_A", "cus_B"}
    /\ gwPM = [m \in PMs |-> CASE m = "pm_A" -> "cus_A"
                               [] m = "pm_B" -> "cus_B"
                               [] OTHER -> Null]
    /\ gwDefault = [c \in {"cus_A", "cus_B"} |-> Null]
    /\ gwItems = {}
    /\ gwInvoices = <<>>

InitCheckout ==
    /\ db = {DocA, DocB, DocN}
    /\ nextId = 3
    /\ nextCus = 0
    /\ regCount = 0
    /\ reg = [p \in RegProcs |-> RegIdle]
    /\ InitGateway
    /\ \E r1 \in CoRequests, r2 \in CoRequests2 :
         co = [p \in CoProcs |-> IF p = "c1" THEN Arrived(r1) ELSE Arrived(r2)]
    /\ gwSent = {}
    /\ lk = [q \in LkProcs |-> LkOff]
    /\ CuIdle
    /\ bk = BkOff

NextCheckout ==
    \E p \in CoProcs :
        \/ CoValidate(p)
        \/ CreatePaymentController(p)
        \/ CreatePaymentWithItemsController(p)
        \/ Attach(p)
        \/ SetDefault(p)
        \/ CreateItem(p)
        \/ IssueItems(p)
        \/ \E k \in 1..Len(co[p].calls) : ItemDone(p, k)
        \/ CreateInvoice(p)
        \/ FinalizeInvoice(p)
        \/ PayInvoice(p)
        \/ RetrieveIntent(p)
        \/ CoRespond(p)
        \/ CoCatch(p)

SpecCheckout == InitCheckout /\ [][NextCheckout]_vars

\* a request body with a currency
WithCurrency(r, cur) == [r EXCEPT !.body.currency = cur]

\* flat-amount requests of customer A
PairFlat ==
    {WithCurrency(Request("pi", DocA, FlatBody("pm_A", JNum(a), JUndef)), cur) :
        a \in 1..MaxAmount, cur \in {JUndef, JStr("eur")}}
    \cup {Request("pi", DocA, FlatBody("pm_new", JNum(MaxAmount), JStr("true")))}

\* items with and without quantity, a quantity of 0 included
PairItemChoices ==
    {Item(a, JUndef) : a \in 1..MaxAmount}
    \cup {Item(1, JNum(2)), Item(MaxAmount, JNum(0))}

\* the item lists of 1..MaxItems items, up to the order of their items
PairLists ==
    UNION {{l \in [1..n -> PairItemChoices] :
               \A k \in 1..(n - 1) : ItemRank(l[k]) <= ItemRank(l[k + 1])} :
           n \in 1..MaxItems}

\* multi-item requests of customer B
PairItems ==
    {Request("pw", DocB, ItemsBody("pm_B", JArr(l), JUndef)) : l \in PairLists}
    \cup {WithCurrency(Request("pw", DocB,
                ItemsBody("pm_B", JArr(<<Item(1, JUndef), Item(1, JUndef)>>), s)), JStr("eur")) :
            s \in {JUndef, JStr("true")}}

\* one flat-amount checkout and one multi-item checkout, each alone on its
\* billing account
InitPair ==
    /\ db = {DocA, DocB, DocN}
    /\ nextId = 3
    /\ nextCus = 0
    /\ regCount = 0
    /\ reg = [p \in RegProcs |-> RegIdle]
    /\ InitGateway
    /\ \E r1 \in PairFlat, r2 \in PairItems :
         co = [p \in CoProcs |-> IF p = "c1" THEN Arrived(r1) ELSE Arrived(r2)]
    /\ gwSent = {}
    /\ lk = [q \in LkProcs |-> LkOff]
    /\ CuIdle
    /\ bk = BkOff

SpecPair == InitPair /\ [][NextCheckout]_vars

----------------------------------------------------------------------------
(* Claims on the checkout flows *)

Ops(p) == [k \in 1..Len(co[p].calls) |-> co[p].calls[k].op]

IsPrefix(a, b) == Len(a) <= Len(b) /\ \A k \in 1..Len(a) : a[k] = b[k]

\* a gateway call of the attempt has failed
Failed(p) == \E k \in 1..Len(co[p].calls) : co[p].calls[k].out \in {"card", "api"}

\* persistence of the payment method was requested
SaveRequested(p) == co[p].body.savePaymentMethod = JStr("true")

\* the gateway steps the request of p asks for, in order
Expected(p) ==
    (IF SaveRequested(p) THEN <<"attach", "setDefault">> ELSE <<>>)
    \o [k \in 1..(IF co[p].flow = "pi" THEN 1 ELSE Len(ItemsOf(co[p].body))) |-> "item"]
    \o <<"createInvoice", "finalize", "pay", "retrieve">>

\* C4: in every run of either checkout entry point the gateway calls are
\* issued in the order attach, set default (only when persistence was
\* requested), line items, invoice creation, finalize, pay, payment-intent
\* retrieval; no step is issued twice; a step is issued only when every
\* earlier step has returned successfully (the line items of one attempt
\* count as one step); a result is returned only when all have succeeded.
C4_SequentialSteps ==
    \A p \in CoProcs :
        /\ IsPrefix(Ops(p), Expected(p))
        /\ \A k \in 1..Len(co[p].calls) : \A j \in 1..(k - 1) :
               (co[p].calls[k].op # "item" \/ co[p].calls[j].op # "item")
                   => co[p].calls[j].out = "ok"
        /\ co[p].pc \in {"respond"} \/ co[p].status = 200 =>
               /\ Ops(p) = Expected(p)
               /\ \A k \in 1..Len(co[p].calls) : co[p].calls[k].out = "ok"

\* a multi-item checkout with persistence requested has run to its result
C4_Witness ==
    \E p \in CoProcs :
        /\ co[p].status = 200 /\ co[p].flow = "pw" /\ SaveRequested(p)
        /\ Len(co[p].calls) = 8
        /\ gwInvoices[co[p].inv].status = "paid"

\* C5: once a gateway call of a checkout attempt has failed, the attempt
\* issues no further gateway call, ends with an error and never with a
\* result, and removes or changes nothing it had created on the gateway
\* (its invoice items stay, its invoice stays as it was).
C5_AbortWithoutRollback ==
    /\ [](\A p \in CoProcs : Failed(p) =>
            /\ co[p].pc \in {"catch", "done"}
            /\ co[p].status # 200
            /\ co[p].pc = "done" => co[p].thrown.type = "AppError")
    /\ [][\A p \in CoProcs : Failed(p) =>
            /\ Ops(p)' = Ops(p)
            /\ \A i \in gwItems : i.by = p => \E i2 \in gwItems' : i2.id = i.id
            /\ \A id \in 1..Len(gwInvoices) :
                   gwInvoices[id].by = p => gwInvoices'[id] = gwInvoices[id]]_vars

\* an attempt whose pay call failed has ended; its items and invoice remain
C5_Witness ==
    \E p \in CoProcs :
        /\ co[p].pc = "done" /\ Failed(p) /\ co[p].inv # 0
        /\ co[p].calls[Len(co[p].calls)].op = "pay"
        /\ gwInvoices[co[p].inv].status = "open"
        /\ \E i \in gwItems : i.by = p

\* C6: when persistence was requested and attaching the payment method or
\* setting it as default fails, the attempt creates no line item and no
\* invoice and makes no pay call.
C6_AttachFailureAborts ==
    \A p \in CoProcs :
        (\E k \in 1..Len(co[p].calls) :
            /\ co[p].calls[k].op \in {"attach", "setDefault"}
            /\ co[p].calls[k].out \in {"card", "api"})
        => /\ \A k \in 1..Len(co[p].calls) : co[p].calls[k].op \in {"attach", "setDefault"}
           /\ \A i \in gwItems : i.by # p
           /\ \A id \in 1..Len(gwInvoices) : gwInvoices[id].by # p
           /\ co[p].inv = 0
           /\ co[p].status # 200

\* the attach succeeded, setting the default failed, the attempt has ended
C6_Witness ==
    \E p \in CoProcs :
        /\ co[p].pc = "done" /\ SaveRequested(p) /\ Len(co[p].calls) = 2
        /\ co[p].calls[1].out = "ok" /\ co[p].calls[2].out = "card"
        /\ co[p].thrown.status = 400

\* the request of p carries a zero or negative amount
NonPositive(p) ==
    \/ co[p].flow = "pi" /\ ~ToNumber(co[p].body.amount).nan
                         /\ ToNumber(co[p].body.amount).n <= 0
    \/ co[p].flow = "pw" /\ \E k \in 1..Len(ItemsOf(co[p].body)) :
                                ItemsOf(co[p].body)[k].amount <= 0

\* C7: a request of either checkout entry point with a zero or negative
\* amount (the flat amount, or the amount of an item) is rejected before any
\* gateway call; no invoice item with a non-positive amount reaches the gateway.
C7_NonPositiveRejected ==
    /\ \A p \in CoProcs : NonPositive(p) =>
           /\ co[p].calls = <<>>
           /\ co[p].pc = "done" => co[p].thrown.status \in {400, 404}
    /\ \A i \in gwItems : i.amount > 0

\* the total of the request of p
RECURSIVE SumItems(_)
SumItems(items) ==
    IF items = <<>> THEN 0
    ELSE Head(items).amount * QuantityOf(Head(items)) + SumItems(Tail(items))

RequestTotal(p) ==
    IF co[p].flow = "pi" THEN ToNumber(co[p].body.amount).n
    ELSE SumItems(ItemsOf(co[p].body))

\* C8: two concurrent checkout attempts on one billing account are
\* independent: the invoice of each attempt holds exactly the invoice items
\* that attempt created, and each attempt is charged the total of its request.
C8_AttemptsIndependent ==
    \A id \in 1..Len(gwInvoices) :
        /\ \A i \in gwItems : i.invoice = id => i.by = gwInvoices[id].by
        /\ \A i \in gwItems : (i.by = gwInvoices[id].by /\ co[i.by].inv = id) => i.invoice = id
        /\ gwInvoices[id].status = "paid" =>
               gwInvoices[id].amount_paid = RequestTotal(gwInvoices[id].by)

\* C10: every payment method id passed to attach, set-default or pay belongs
\* to the caller's billing account (for attach: is not attached to another
\* account), the paymentMethodId of createPayment and createPaymentWithItems
\* included.
C10_OwnPaymentMethodOnly ==
    \A p \in CoProcs : \A k \in 1..Len(co[p].calls) :
        LET c == co[p].calls[k]
        IN  /\ c.op \in {"setDefault", "pay"} => c.owner = co[p].caller.stripeCustomerId
            /\ c.op = "attach" => c.owner \in {Null, co[p].caller.stripeCustomerId}

\* C14: attach and set-default are issued in a checkout attempt exactly when
\* the request's savePaymentMethod is the string "true": an attempt that
\* issues either call has requested persistence, an attempt that requested
\* persistence issues attach before any other call and set-default right
\* after it, and an attempt without the request makes no attach call.
C14_AttachIffRequested ==
    \A p \in CoProcs :
        /\ co[p].pc \notin {"off", "validate", "controller"} /\ co[p].data # NoData
               => co[p].data.savePaymentMethod = SaveRequested(p)
        /\ (\E k \in 1..Len(co[p].calls) : co[p].calls[k].op \in {"attach", "setDefault"})
               => SaveRequested(p)
        /\ SaveRequested(p) /\ Len(co[p].calls) >= 1 => co[p].calls[1].op = "attach"
        /\ SaveRequested(p) /\ Len(co[p].calls) >= 2 => co[p].calls[2].op = "setDefault"
        /\ SaveRequested(p) /\ co[p].status = 200 => Len(co[p].calls) >= 2
        /\ \A m \in PMs : \A c \in gwCustomers :
               (gwPM[m] = c /\ ~(m = "pm_A" /\ c = "cus_A") /\ ~(m = "pm_B" /\ c = "cus_B"))
                   => \E r \in CoProcs :
                          /\ SaveRequested(r) /\ co[r].body.paymentMethodId = JStr(m)
                          /\ co[r].caller.stripeCustomerId = c

\* a checkout with savePaymentMethod "false" has been paid without an attach
\* call, the payment method is attached to no account
C14_Witness ==
    /\ co["c1"].status = 200
    /\ co["c1"].body.savePaymentMethod = JStr("false")
    /\ \A k \in 1..Len(co["c1"].calls) : co["c1"].calls[k].op \notin {"attach", "setDefault"}
    /\ gwPM["pm_new"] = Null

\* C19: in both checkout entry points a failed gateway step is translated:
\* a card error becomes AppError 400 with the gateway's message, every other
\* failure becomes AppError 500 'Payment processing failed', which carries
\* nothing of the gateway's error. The failure translated is the one that
\* ended the attempt (of several failed line items, one of them).
C19_ErrorTranslation ==
    \A p \in CoProcs :
        (co[p].pc = "done" /\ Failed(p)) =>
            /\ co[p].thrown.type = "AppError"
            /\ \E k \in 1..Len(co[p].calls) :
                   LET out == co[p].calls[k].out
                   IN  /\ out \in {"card", "api"}
                       /\ out = "card" =>
                              /\ co[p].thrown.status = 400
                              /\ co[p].thrown.message = "Your card was declined."
                       /\ out = "api" =>
                              /\ co[p].thrown.status = 500
                              /\ co[p].thrown.message = "Payment processing failed"
            /\ (\A k \in 1..Len(co[p].calls) : co[p].calls[k].out # "card")
                   => co[p].thrown = AppError("Payment processing failed", 500)
            /\ (\A k \in 1..Len(co[p].calls) : co[p].calls[k].out # "api")
                   => co[p].thrown = AppError("Your card was declined.", 400)

\* one attempt ended by a declined card at pay, the other by a gateway
\* failure at the invoice's creation
C19_Witness ==
    \E p, q \in CoProcs :
        /\ co[p].pc = "done" /\ co[p].calls # <<>>
        /\ co[p].calls[Len(co[p].calls)].op = "pay"
        /\ co[p].calls[Len(co[p].calls)].out = "card"
        /\ co[p].thrown.status = 400
        /\ co[q].pc = "done" /\ co[q].calls # <<>>
        /\ co[q].calls[Len(co[q].calls)].op = "createInvoice"
        /\ co[q].calls[Len(co[q].calls)].out = "api"
        /\ co[q].thrown.status = 500

\* the total of a list of items as the request states it: amount times
\* quantity, a missing quantity counted as 1
RECURSIVE ItemsTotal(_)
ItemsTotal(items) ==
    IF items = <<>> THEN 0
    ELSE Head(items).amount
             * (IF Head(items).quantity.t = "undefined" THEN 1 ELSE Head(items).quantity.n)
         + ItemsTotal(Tail(items))

\* the attempt of p is alone on its billing account and its invoice is paid
PaidAlone(p) ==
    /\ co[p].inv # 0
    /\ gwInvoices[co[p].inv].status = "paid"
    /\ \A i \in gwItems : i.customer = co[p].data.customerId => i.by = p

\* C12: for a multi-item checkout on an account with no other pending line
\* items, the total of the paid invoice is the sum over the request's items
\* of amount times quantity, a missing quantity counted as 1.
C12_ItemsTotalCharged ==
    \A p \in CoProcs :
        (co[p].flow = "pw" /\ PaidAlone(p)) =>
            gwInvoices[co[p].inv].amount_paid = ItemsTotal(ItemsOf(co[p].body))

\* the gateway steps of an attempt after its line items
PostItemOps(p) ==
    SelectSeq(Ops(p), LAMBDA o : o \notin {"attach", "setDefault", "item"})

----------------------------------------------------------------------------
(* Lookups: stripeController.getInvoice / sendInvoice / deletePaymentMethod *)

\* the comparison written with != (null and undefined compare equal)
NotOwner_Loose(resourceCustomer, callerCustomerId) ==
    /\ resourceCustomer # callerCustomerId
    /\ ~({resourceCustomer, callerCustomerId} \subseteq {Null, Undefined})

\* invoice.customer !== customer.stripeCustomerId (strict inequality)
NotOwner(resourceCustomer, callerCustomerId) == resourceCustomer # callerCustomerId

\* the Stripe.Invoice the gateway returns for an invoice id: the number and
\* the links exist once the invoice is finalized, the currency is that of
\* its lines
InvoiceObject(id) ==
    LET inv == gwInvoices[id]
        final == inv.status # "draft"
        curs == {i.currency : i \in {j \in gwItems : j.invoice = id}}
    IN  [id |-> id, customer |-> inv.customer, status |-> inv.status,
         amount_paid |-> inv.amount_paid,
         number |-> IF final THEN <<"number", id>> ELSE Null,
         currency |-> IF Cardinality(curs) = 1 THEN CHOOSE c \in curs : TRUE ELSE "usd",
         created |-> <<"created", id>>,
         hosted_invoice_url |-> IF final THEN <<"url", id>> ELSE Null,
         invoice_pdf |-> IF final THEN <<"pdf", id>> ELSE Null,
         payment_intent |-> IF inv.status = "paid" THEN <<"pi", id>> ELSE Null]

\* the invoice of the response of getInvoice, lines 97-106
InvoiceSummary(invoice) ==
    [id |-> invoice.id, number |-> invoice.number, status |-> invoice.status,
     amount_paid |-> invoice.amount_paid, currency |-> invoice.currency,
     created |-> invoice.created, hosted_invoice_url |-> invoice.hosted_invoice_url,
     invoice_pdf |-> invoice.invoice_pdf]

\* how a retrieval of the gateway ends: the resource is returned, the gateway
\* answers that there is none with that id, or the call fails (the gateway or
\* the connection to it is down)
RetrieveOutcome(ok, exists) ==
    IF ~ok THEN "api" ELSE IF exists THEN "ok" ELSE "missing"

\* stripeService.getInvoice: stripe.invoices.retrieve; every failure becomes
\* AppError('Invoice not found', 404)
RetrieveInvoice(q) ==
    /\ lk[q].pc = "retrieve"
    /\ lk[q].op \in {"getInvoice", "sendInvoice"}
    /\ \E ok \in BOOLEAN :
         LET out == RetrieveOutcome(ok, lk[q].inv \in 1..Len(gwInvoices))
         IN  lk' = [lk EXCEPT ![q] =
                      IF out = "ok"
                      THEN [@ EXCEPT !.pc = "check", !.found = TRUE, !.out = out,
                                     !.invoice = InvoiceObject(lk[q].inv),
                                     !.owner = gwInvoices[lk[q].inv].customer]
                      ELSE [@ EXCEPT !.pc = "done", !.out = out,
                                     !.thrown = AppError("Invoice not found", 404)]]
    /\ UNCHANGED <<regVars, coVars, cuVars, bkVars, gwSent>>

\* stripeService.getPaymentMethod: stripe.paymentMethods.retrieve; every
\* failure becomes AppError('Payment method not found', 404)
RetrievePaymentMethod(q) ==
    /\ lk[q].pc = "retrieve"
    /\ lk[q].op = "deletePaymentMethod"
    /\ \E ok \in BOOLEAN :
         LET out == RetrieveOutcome(ok, lk[q].pm \in PMs)
         IN  lk' = [lk EXCEPT ![q] =
                      IF out = "ok"
                      THEN [@ EXCEPT !.pc = "check", !.found = TRUE, !.out = out,
                                     !.owner = gwPM[lk[q].pm]]
                      ELSE [@ EXCEPT !.pc = "done", !.out = out,
                                     !.thrown = AppError("Payment method not found", 404)]]
    /\ UNCHANGED <<regVars, coVars, cuVars, bkVars, gwSent>>

\* getInvoice recording on the gateway that the invoice was looked at
GetInvoiceCheck_Touch(q) ==
    /\ lk[q].pc = "check"
    /\ lk[q].op = "getInvoice"
    /\ lk' = [lk EXCEPT ![q] =
                IF NotOwner(lk[q].owner, lk[q].caller.stripeCustomerId)
                THEN [@ EXCEPT !.pc = "done", !.thrown = AppError("Invoice not found", 404)]
                ELSE [@ EXCEPT !.pc = "done", !.status = 200, !.exposed = lk[q].inv,
                               !.body = [success |-> TRUE,
                                         invoice |-> InvoiceSummary(lk[q].invoice)]]]
    /\ gwSent' = gwSent \cup {lk[q].inv}
    /\ UNCHANGED <<regVars, coVars, cuVars, bkVars>>

\* getInvoice, lines 90-107: ownership check, then the invoice summary
GetInvoiceCheck(q) ==
    /\ lk[q].pc = "check"
    /\ lk[q].op = "getInvoice"
    /\ lk' = [lk EXCEPT ![q] =
                IF NotOwner(lk[q].owner, lk[q].caller.stripeCustomerId)
                THEN [@ EXCEPT !.pc = "done", !.thrown = AppError("Invoice not found", 404)]
                ELSE [@ EXCEPT !.pc = "done", !.status = 200, !.exposed = lk[q].inv,
                               !.body = [success |-> TRUE,
                                         invoice |-> InvoiceSummary(lk[q].invoice)]]]
    /\ UNCHANGED <<regVars, coVars, cuVars, bkVars, gwSent>>

\* sendInvoice, lines 118-122: ownership check
SendInvoiceCheck(q) ==
    /\ lk[q].pc = "check"
    /\ lk[q].op = "sendInvoice"
    /\ lk' = [lk EXCEPT ![q] =
                IF NotOwner(lk[q].owner, lk[q].caller.stripeCustomerId)
                THEN [@ EXCEPT !.pc = "done", !.thrown = AppError("Invoice not found", 404)]
                ELSE [@ EXCEPT !.pc = "act"]]
    /\ UNCHANGED <<regVars, coVars, cuVars, bkVars, gwSent>>

\* sendInvoice, lines 124-131 and stripeService.sendInvoice
SendInvoiceAct(q) ==
    /\ lk[q].pc = "act"
    /\ lk[q].op = "sendInvoice"
    /\ \E ok \in BOOLEAN :
         /\ gwSent' = IF ok THEN gwSent \cup {lk[q].inv} ELSE gwSent
         /\ lk' = [lk EXCEPT ![q] =
                     IF ok THEN [@ EXCEPT !.pc = "done", !.status = 200, !.acted = TRUE]
                     ELSE [@ EXCEPT !.pc = "done", !.acted = TRUE,
                                    !.thrown = AppError("Failed to send invoice", 500)]]
    /\ UNCHANGED <<regVars, coVars, cuVars, bkVars>>

\* deletePaymentMethod going on to the detach without comparing the owner
DeletePaymentMethodCheck_NoCheck(q) ==
    /\ lk[q].pc = "check"
    /\ lk[q].op = "deletePaymentMethod"
    /\ lk' = [lk EXCEPT ![q].pc = "act"]
    /\ UNCHANGED <<regVars, coVars, cuVars, bkVars, gwSent>>

\* deletePaymentMethod, lines 156-160: ownership check
DeletePaymentMethodCheck(q) ==
    /\ lk[q].pc = "check"
    /\ lk[q].op = "deletePaymentMethod"
    /\ lk' = [lk EXCEPT ![q] =
                IF NotOwner(lk[q].owner, lk[q].caller.stripeCustomerId)
                THEN [@ EXCEPT !.pc = "done",
                               !.thrown = AppError("Payment method not found", 404)]
                ELSE [@ EXCEPT !.pc = "act"]]
    /\ UNCHANGED <<regVars, coVars, cuVars, bkVars, gwSent>>

\* deletePaymentMethod, lines 162-169 and stripeService.detachPaymentMethod
DeletePaymentMethodAct(q) ==
    /\ lk[q].pc = "act"
    /\ lk[q].op = "deletePaymentMethod"
    /\ \E ok \in BOOLEAN :
         /\ gwPM' = IF ok THEN [gwPM EXCEPT ![lk[q].pm] = Null] ELSE gwPM
         /\ lk' = [lk EXCEPT ![q] =
                     IF ok THEN [@ EXCEPT !.pc = "done", !.status = 200, !.acted = TRUE]
                     ELSE [@ EXCEPT !.pc = "done", !.acted = TRUE,
                                    !.thrown = AppError("Failed to delete payment method", 500)]]
    /\ UNCHANGED <<regVars, cuVars, bkVars, gwDefault, gwItems, gwInvoices, co, gwSent>>

\* the lookup requests: every caller, every invoice id and payment method id
\* (one more invoice id than the gateway holds, and an unknown payment method)
LkRequests ==
    {[LkOff EXCEPT !.pc = "retrieve", !.op = o, !.caller = c, !.inv = i] :
        o \in {"getInvoice", "sendInvoice"}, c \in {DocA, DocB, DocN}, i \in 1..3}
    \cup {[LkOff EXCEPT !.pc = "retrieve", !.op = "deletePaymentMethod", !.caller = c, !.pm = m] :
        c \in {DocA, DocB, DocN}, m \in PMs \cup {"pm_unknown"}}

InitLookup ==
    /\ db = {DocA, DocB, DocN}
    /\ nextId = 3
    /\ nextCus = 0
    /\ regCount = 0
    /\ reg = [p \in RegProcs |-> RegIdle]
    /\ gwCustomers = {"cus_A", "cus_B"}
    /\ gwPM = [m \in PMs |-> CASE m = "pm_A" -> "cus_A"
                               [] m = "pm_B" -> "cus_B"
                               [] OTHER -> Null]
    /\ gwDefault = [c \in {"cus_A", "cus_B"} |-> Null]
    /\ gwItems = {[id |-> <<"c1", 1>>, customer |-> "cus_A", amount |-> 1,
                   currency |-> "usd", quantity |-> 1,
                   invoice |-> 1, by |-> "c1"],
                  [id |-> <<"c2", 1>>, customer |-> "cus_B", amount |-> 2,
                   currency |-> "usd", quantity |-> 1,
                   invoice |-> 2, by |-> "c2"]}
    /\ gwInvoices = << [customer |-> "cus_A", status |-> "paid", amount_paid |-> 1,
                        pm |-> "pm_A", by |-> "c1"],
                       [customer |-> "cus_B", status |-> "open", amount_paid |-> 0,
                        pm |-> Null, by |-> "c2"] >>
    /\ co = [p \in CoProcs |-> CoOff]
    /\ gwSent = {}
    /\ lk \in [LkProcs -> LkRequests]
    /\ CuIdle
    /\ bk = BkOff

NextLookup ==
    \E q \in LkProcs :
        \/ RetrieveInvoice(q)
        \/ RetrievePaymentMethod(q)
        \/ GetInvoiceCheck(q)
        \/ SendInvoiceCheck(q)
        \/ SendInvoiceAct(q)
        \/ DeletePaymentMethodCheck(q)
        \/ DeletePaymentMethodAct(q)

SpecLookup == InitLookup /\ [][NextLookup]_vars

----------------------------------------------------------------------------
(* Claims on the lookups *)

\* the resource was retrieved and its owner is not the caller's billing
\* account, or the caller has no billing account reference
Foreign(q) ==
    /\ lk[q].found
    /\ \/ lk[q].caller.stripeCustomerId = Undefined
       \/ lk[q].owner # lk[q].caller.stripeCustomerId

\* C9: a getInvoice, sendInvoice or deletePaymentMethod request for a
\* resource whose owner is not the caller's billing account (the caller may
\* have none) ends with AppError 404 after the ownership check, with the
\* message of a resource that does not exist: never with 403, never with a
\* success response, never with a field of the resource, and without the
\* send or detach call.
C9_ForeignIsNotFound ==
    \A q \in LkProcs :
        Foreign(q) =>
            /\ lk[q].pc \in {"check", "done"}
            /\ lk[q].exposed = 0
            /\ lk[q].status = 0
            /\ ~lk[q].acted
            /\ lk[q].pc = "done" =>
                   /\ lk[q].thrown.type = "AppError"
                   /\ lk[q].thrown.status = 404
                   /\ lk[q].thrown.message = IF lk[q].op = "deletePaymentMethod"
                                              THEN "Payment method not found"
                                              ELSE "Invoice not found"

\* a caller without billing account reference has asked to delete an
\* unattached payment method, another caller for a foreign invoice
C9_Witness ==
    /\ lk["l1"].pc = "done" /\ Foreign("l1") /\ lk["l1"].op = "deletePaymentMethod"
    /\ lk["l1"].owner = Null /\ lk["l1"].caller.stripeCustomerId = Undefined
    /\ lk["l2"].pc = "done" /\ Foreign("l2") /\ lk["l2"].op = "getInvoice"
    /\ lk["l2"].owner = "cus_B" /\ lk["l2"].caller.stripeCustomerId = "cus_A"

\* C11: deletePaymentMethod and sendInvoice issue no detach and no send for
\* a resource whose owner is not the caller's billing account: the request
\* ends with AppError 404, no step of it changes the gateway's payment
\* methods or sent invoices, and the payment method is still attached to its
\* owner unless a request of the owner has detached it.
C11_ForeignNotMutated ==
    /\ [](\A q \in LkProcs :
            (Foreign(q) /\ lk[q].op \in {"sendInvoice", "deletePaymentMethod"}) =>
                /\ ~lk[q].acted
                /\ lk[q].pc = "done" => lk[q].thrown.status = 404
                /\ lk[q].op = "sendInvoice" /\ lk[q].inv \in gwSent
                       => \E r \in LkProcs \ {q} :
                              /\ lk[r].acted /\ lk[r].inv = lk[q].inv
                              /\ lk[r].caller.stripeCustomerId = lk[q].owner
                /\ lk[q].op = "deletePaymentMethod" /\ gwPM[lk[q].pm] # lk[q].owner
                       => \E r \in LkProcs \ {q} :
                              /\ lk[r].acted /\ lk[r].pm = lk[q].pm
                              /\ lk[r].caller.stripeCustomerId = lk[q].owner)
    /\ [][\A q \in LkProcs :
            (lk'[q] # lk[q] /\ lk'[q].found
                /\ NotOwner(lk'[q].owner, lk'[q].caller.stripeCustomerId))
            => gwPM' = gwPM /\ gwSent' = gwSent]_vars

\* customer A has asked to delete the payment method of customer B and to
\* send the invoice of customer B: both ended, nothing was detached or sent
C11_Witness ==
    /\ lk["l1"].pc = "done" /\ lk["l1"].op = "deletePaymentMethod"
    /\ lk["l1"].pm = "pm_B" /\ lk["l1"].caller.stripeCustomerId = "cus_A"
    /\ lk["l1"].found /\ lk["l1"].thrown.status = 404 /\ gwPM["pm_B"] = "cus_B"
    /\ lk["l2"].pc = "done" /\ lk["l2"].op = "sendInvoice"
    /\ lk["l2"].inv = 2 /\ lk["l2"].caller.stripeCustomerId = "cus_A"
    /\ lk["l2"].found /\ lk["l2"].thrown.status = 404 /\ 2 \notin gwSent

\* C20: two getInvoice requests of the same caller for the same invoice,
\* which has not changed on the gateway, answer with identical summary
\* fields (id, number, status, amount_paid, currency, created,
\* hosted_invoice_url, invoice_pdf), those of the gateway's invoice; and no
\* step of a getInvoice request changes a Customer or the gateway's state.
C20_GetInvoiceIdempotent ==
    /\ [](\A q, r \in LkProcs :
            (/\ lk[q].op = "getInvoice" /\ lk[r].op = "getInvoice"
             /\ lk[q].status = 200 /\ lk[r].status = 200
             /\ lk[q].inv = lk[r].inv /\ lk[q].caller = lk[r].caller)
            => /\ lk[q].body.invoice = lk[r].body.invoice
               /\ DOMAIN lk[q].body.invoice =
                      {"id", "number", "status", "amount_paid", "currency", "created",
                       "hosted_invoice_url", "invoice_pdf"}
               /\ \A f \in DOMAIN lk[q].body.invoice :
                      lk[q].body.invoice[f] = InvoiceObject(lk[q].inv)[f])
    /\ [][\A q \in LkProcs :
            (lk[q].op = "getInvoice" /\ lk'[q] # lk[q])
            => /\ UNCHANGED <<db, gwCustomers, gwPM, gwDefault, gwItems, gwInvoices, gwSent>>
               /\ \A r \in LkProcs \ {q} : lk'[r] = lk[r]]_vars

\* customer A has retrieved the paid invoice 1 twice
C20_Witness ==
    /\ lk["l1"].op = "getInvoice" /\ lk["l2"].op = "getInvoice"
    /\ lk["l1"].status = 200 /\ lk["l2"].status = 200
    /\ lk["l1"].inv = 1 /\ lk["l2"].inv = 1
    /\ lk["l1"].caller = DocA /\ lk["l2"].caller = DocA
    /\ lk["l1"].body.invoice.status = "paid"
    /\ lk["l1"].body.invoice.amount_paid = 1

\* C29: when the retrieval of an invoice or of a payment method fails for a
\* reason other than a card decline (the gateway or the connection to it is
\* down), the caller gets the gateway-unavailable error, a 500, and no error
\* of another class.
C29_RetrievalFailureIs500 ==
    \A q \in LkProcs :
        (lk[q].out = "api" /\ lk[q].pc = "done") =>
            /\ lk[q].thrown.type = "AppError"
            /\ lk[q].thrown.status = 500

----------------------------------------------------------------------------
(* Listings: stripeController.getCustomerInvoices / getPaymentMethods *)

\* the default of the limit query parameter
ListLimit == 10

\* getCustomerInvoices, lines 61-64 and getPaymentMethods, lines 135-138
ListController(q) ==
    /\ lk[q].pc = "controller"
    /\ lk[q].op \in {"getCustomerInvoices", "getPaymentMethods"}
    /\ lk' = [lk EXCEPT ![q] =
                IF NoBillingAccount(lk[q].caller)
                THEN [@ EXCEPT !.pc = "done",
                               !.thrown = AppError("Customer not found or no Stripe ID", 404)]
                ELSE [@ EXCEPT !.pc = "list"]]
    /\ UNCHANGED <<regVars, coVars, cuVars, bkVars, gwSent>>

\* ids of the invoices of a customer, the newest first
InvoiceIdsOf(c) ==
    SelectSeq([k \in 1..Len(gwInvoices) |-> Len(gwInvoices) + 1 - k],
              LAMBDA id : gwInvoices[id].customer = c)

\* getCustomerInvoices, lines 66-77 and stripeService.listInvoices: the first
\* page of the customer's invoices, as summaries; a failure becomes AppError 500
ListInvoices(q) ==
    /\ lk[q].pc = "list"
    /\ lk[q].op = "getCustomerInvoices"
    /\ LET ids == InvoiceIdsOf(lk[q].caller.stripeCustomerId)
           n == IF Len(ids) < ListLimit THEN Len(ids) ELSE ListLimit
       IN  \E ok \in BOOLEAN :
             lk' = [lk EXCEPT ![q] =
                      IF ok
                      THEN [@ EXCEPT !.pc = "done", !.status = 200, !.out = "ok",
                                     !.body = [success |-> TRUE,
                                               invoices |-> [k \in 1..n |->
                                                   InvoiceSummary(InvoiceObject(ids[k]))],
                                               has_more |-> Len(ids) > n]]
                      ELSE [@ EXCEPT !.pc = "done", !.out = "api",
                                     !.thrown = AppError("Failed to fetch invoices", 500)]]
    /\ UNCHANGED <<regVars, coVars, cuVars, bkVars, gwSent>>

\* getPaymentMethods, lines 140-145 and stripeService.listPaymentMethods: the
\* payment methods attached to the customer; a failure becomes AppError 500
ListPaymentMethods(q) ==
    /\ lk[q].pc = "list"
    /\ lk[q].op = "getPaymentMethods"
    /\ \E ok \in BOOLEAN :
         lk' = [lk EXCEPT ![q] =
                  IF ok
                  THEN [@ EXCEPT !.pc = "done", !.status = 200, !.out = "ok",
                                 !.body = [success |-> TRUE,
                                           paymentMethods |->
                                               {m \in PMs : gwPM[m] = lk[q].caller.stripeCustomerId}]]
                  ELSE [@ EXCEPT !.pc = "done", !.out = "api",
                                 !.thrown = AppError("Failed to fetch payment methods", 500)]]
    /\ UNCHANGED <<regVars, coVars, cuVars, bkVars, gwSent>>

\* GET /invoices and GET /payment-methods of every caller
ListRequests ==
    {[LkOff EXCEPT !.pc = "controller", !.op = o, !.caller = c] :
        o \in {"getCustomerInvoices", "getPaymentMethods"}, c \in {DocA, DocB, DocN}}

\* checkouts of both flows, of a customer with and of a customer without
\* billing account, with and without the payment method to be saved
AccountCheckouts ==
    {Request("pi", c, FlatBody(ps[1], JNum(a), ps[2])) :
        c \in {DocA, DocN}, a \in 1..MaxAmount,
        ps \in {<<"pm_A", JUndef>>, <<"pm_new", JStr("true")>>}}
    \cup {Request("pw", c, ItemsBody(ps[1], JArr(<<Item(1, JUndef), Item(1, JNum(2))>>), ps[2])) :
            c \in {DocA, DocN},
            ps \in {<<"pm_A", JUndef>>, <<"pm_new", JStr("true")>>}}

\* one checkout request and one listing request, served concurrently
InitListing ==
    /\ db = {DocA, DocB, DocN}
    /\ nextId = 3
    /\ nextCus = 0
    /\ regCount = 0
    /\ reg = [p \in RegProcs |-> RegIdle]
    /\ InitGateway
    /\ \E r1 \in AccountCheckouts :
         co = [p \in CoProcs |-> IF p = "c1" THEN Arrived(r1) ELSE CoOff]
    /\ gwSent = {}
    /\ \E r2 \in ListRequests :
         lk = [q \in LkProcs |-> IF q = "l1" THEN r2 ELSE LkOff]
    /\ CuIdle
    /\ bk = BkOff

NextListing ==
    \/ \E p \in CoProcs :
         \/ CoValidate(p)
         \/ CreatePaymentController(p)
         \/ CreatePaymentWithItemsController(p)
         \/ Attach(p)
         \/ SetDefault(p)
         \/ CreateItem(p)
         \/ IssueItems(p)
         \/ \E k \in 1..Len(co[p].calls) : ItemDone(p, k)
         \/ CreateInvoice(p)
         \/ FinalizeInvoice(p)
         \/ PayInvoice(p)
         \/ RetrieveIntent(p)
         \/ CoRespond(p)
         \/ CoCatch(p)
    \/ \E q \in LkProcs :
         \/ ListController(q)
         \/ ListInvoices(q)
         \/ ListPaymentMethods(q)

SpecListing == InitListing /\ [][NextListing]_vars

----------------------------------------------------------------------------
(* Profile and account: authenticateToken, customerController.updateProfile *)
(* and customerController.deleteAccount                                     *)

\* the class a jsonwebtoken error class extends
JwtSuper(cls) ==
    CASE cls = "TokenExpiredError" -> "JsonWebTokenError"
      [] cls = "NotBeforeError" -> "JsonWebTokenError"
      [] OTHER -> "Error"

\* error instanceof target
InstanceOf(cls, target) ==
    \/ cls = target
    \/ JwtSuper(cls) = target
    \/ target = "Error"

\* jwt.verify(token, secret): the class of the error it throws, "none" for a
\* token that verifies
Verify(kind) ==
    CASE kind = "invalid" -> "JsonWebTokenError"
      [] kind = "expired" -> "TokenExpiredError"
      [] OTHER -> "none"

Response(status, message) == [status |-> status, message |-> message]

\* authenticateToken, lines 54-63: the catch block
AuthCatch(cls) ==
    IF InstanceOf(cls, "JsonWebTokenError") THEN Response(401, "Invalid token")
    ELSE IF InstanceOf(cls, "TokenExpiredError") THEN Response(401, "Token expired")
    ELSE Response(500, "Authentication failed")

\* authenticateToken, lines 28-39: the token of the Authorization header
\* (null without a header or without the Bearer prefix), jwt.verify
AuthenticateToken(p) ==
    /\ cu[p].pc = "auth"
    /\ cu' = [cu EXCEPT ![p] =
                IF cu[p].token \in {"absent", "notBearer"}
                THEN [@ EXCEPT !.pc = "done", !.status = 401,
                               !.message = "Access token required"]
                ELSE IF Verify(cu[p].token) # "none"
                THEN [@ EXCEPT !.pc = "done",
                               !.status = AuthCatch(Verify(cu[p].token)).status,
                               !.message = AuthCatch(Verify(cu[p].token)).message]
                ELSE [@ EXCEPT !.pc = "findById"]]
    /\ UNCHANGED <<regVars, coVars, lkVars, bkVars, gwProfile, files>>

\* the fields of a Customer besides those of DocA, DocN
Profile(name) == [name |-> name, address |-> "1 St", phone |-> "111", password |-> "hash"]

\* the Customers: one with billing account and avatar, one with neither
CustA == [DocA EXCEPT !.profilePictureUrl = "url_1"] @@ Profile("Ann")
CustN == DocN @@ Profile("Nan")

\* a look-up that answers with the identity the token was issued for,
\* whether the datastore still holds it or not
findById_Stale(docs, id) == {c \in {CustA, CustN} : c.id = id}

\* Customer.findById: the documents of the collection with this _id
findById(docs, id) == {c \in docs : c.id = id}

\* the routes behind authenticateToken: where the handler of each stops at
\* its first await
FirstStep(op) ==
    CASE op = "updateProfile" -> "save"
      [] op = "uploadProfilePicture" -> "upDelete"
      [] OTHER -> "delBilling"

\* authenticateToken, lines 42-53: Customer.findById(decoded.id), then next()
\* runs the handler of the route up to its first await
AuthFindById(p) ==
    /\ cu[p].pc = "findById"
    /\ LET found == findById(db, cu[p].tokenId)
       IN  \E ok \in BOOLEAN :
             cu' = [cu EXCEPT ![p] =
                     IF ~ok
                     THEN [@ EXCEPT !.pc = "done",
                                    !.status = AuthCatch("MongoError").status,
                                    !.message = AuthCatch("MongoError").message]
                     ELSE IF found = {}
                     THEN [@ EXCEPT !.pc = "done", !.status = 401,
                                    !.message = "Invalid token - user not found"]
                     ELSE [@ EXCEPT !.pc = FirstStep(cu[p].op),
                                    !.customer = CHOOSE c \in found : TRUE,
                                    !.ran = TRUE]]
    /\ UNCHANGED <<regVars, coVars, lkVars, bkVars, gwProfile, files>>

\* every key of the body taken as an update
allowedUpdates_All == BodyKeys

\* updateProfile, line 27
allowedUpdates == {"name", "address", "phone"}

\* Object.keys(req.body)
Keys(body) == {k \in BodyKeys : body[k] # Undefined}

\* updateProfile, lines 28-33: the allowed keys of the body
Updates(body) == [k \in BodyKeys |-> IF k \in allowedUpdates THEN body[k] ELSE Undefined]

\* the Billing Account updated on every request
MirrorWanted_Always(updates) == TRUE

\* updateProfile, line 40: updates.name || updates.phone || updates.address
MirrorWanted(updates) ==
    \E k \in {"name", "phone", "address"} : updates[k] \notin {Undefined, ""}

\* the schema's validators of a path that was set: name, address, phone are
\* required (and name has minlength 2)
ValidPath(k, v) == k \in {"name", "address", "phone"} => v \notin {"", "X"}

\* an entry of a handler's log of calls to the datastore, gateway and storage
CuCall(op, ok) == [op |-> op, ok |-> ok]

\* the fields of the parameters of stripe.customers.update: name and phone of
\* the document, and its address (as line1) when it has one
UpdateParams(customer) ==
    {k \in {"name", "phone"} : customer[k] # Undefined}
    \cup {k \in {"address"} : customer[k] \notin {Undefined, ""}}

\* updateProfile, lines 22-46: the allowed updates are assigned to the
\* document and saved (the modified paths are validated and written); then
\* the gateway update is issued, or the response is sent
UpdateSave(p) ==
    /\ cu[p].pc = "save"
    /\ LET customer == cu[p].customer
           updates == Updates(cu[p].body)
           modified == {k \in Keys(updates) : updates[k] # customer[k]}
           assigned == [f \in DOMAIN customer |->
                          IF f \in Keys(updates) THEN updates[f] ELSE customer[f]]
           stored == {c \in db : c.id = customer.id}
           invalid == \E k \in modified : ~ValidPath(k, updates[k])
           failed(type) ==
               [cu[p] EXCEPT !.pc = "done", !.updates = updates, !.customer = assigned,
                             !.calls = Append(@, CuCall("save", FALSE)),
                             !.thrown = Err(type, 0, "save failed")]
           saved ==
               IF MirrorWanted(updates)
               THEN [cu[p] EXCEPT !.pc = "mirror", !.updates = updates, !.customer = assigned,
                                  !.calls = @ \o <<CuCall("save", TRUE),
                                                   CuCall("updateCustomer", "pending")>>,
                                  !.sent = UpdateParams(assigned)]
               ELSE [cu[p] EXCEPT !.pc = "done", !.updates = updates, !.customer = assigned,
                                  !.calls = Append(@, CuCall("save", TRUE)),
                                  !.status = 200]
       IN  \E ok \in BOOLEAN, lost \in BOOLEAN :
             IF invalid
             THEN cu' = [cu EXCEPT ![p] = failed("ValidationError")] /\ db' = db
             ELSE IF modified = {}
             THEN cu' = [cu EXCEPT ![p] = saved] /\ db' = db
             ELSE IF ~ok
             THEN cu' = [cu EXCEPT ![p] = failed("MongoError")] /\ db' = db
             ELSE IF stored = {}
             THEN /\ cu' = [cu EXCEPT ![p] = IF lost THEN failed("DocumentNotFoundError")
                                              ELSE saved]
                  /\ db' = db
             ELSE /\ cu' = [cu EXCEPT ![p] = saved]
                  /\ db' = (db \ stored)
                           \cup {[f \in DOMAIN c |-> IF f \in modified THEN updates[f] ELSE c[f]] :
                                   c \in stored}
    /\ UNCHANGED <<gwCustomers, nextId, nextCus, regCount, reg>>
    /\ UNCHANGED <<coVars, lkVars, bkVars, gwProfile, files>>

\* updateProfile, lines 41-53 and stripeService.updateCustomer: the gateway
\* sets name, phone and address (line1, when there is one); a failure
\* becomes AppError 500
UpdateMirror(p) ==
    /\ cu[p].pc = "mirror"
    /\ LET customer == cu[p].customer
           id == customer.stripeCustomerId
           n == Len(cu[p].calls)
       IN  \E ok \in BOOLEAN :
             IF ok /\ id \in gwCustomers
             THEN /\ gwProfile' = [gwProfile EXCEPT ![id] =
                                     [name |-> customer.name, phone |-> customer.phone,
                                      address |-> IF customer.address # ""
                                                  THEN customer.address ELSE @.address]]
                  /\ cu' = [cu EXCEPT ![p].pc = "done", ![p].status = 200,
                                      ![p].calls[n].ok = TRUE]
             ELSE /\ gwProfile' = gwProfile
                  /\ cu' = [cu EXCEPT ![p].pc = "done", ![p].calls[n].ok = FALSE,
                                      ![p].thrown = AppError("Failed to update Stripe customer", 500)]
    /\ UNCHANGED <<regVars, coVars, lkVars, bkVars, files>>

\* deleteAccount, lines 113-116 and stripeService.deleteCustomer
DelBilling(p) ==
    /\ cu[p].pc = "delBilling"
    /\ LET id == cu[p].customer.stripeCustomerId
       IN  IF id = Undefined
           THEN /\ cu' = [cu EXCEPT ![p].pc = "delAvatar"]
                /\ gwCustomers' = gwCustomers
           ELSE \E gwOk \in BOOLEAN :
                  LET done == gwOk /\ id \in gwCustomers
                      thrown == deleteCustomer(done, NoErr)
                  IN  /\ gwCustomers' = IF done THEN gwCustomers \ {id} ELSE gwCustomers
                      /\ cu' = [cu EXCEPT ![p].pc = IF thrown = NoErr THEN "delAvatar" ELSE "done",
                                          ![p].thrown = thrown,
                                          ![p].calls = Append(@, CuCall("deleteCustomer", done))]
    /\ UNCHANGED <<db, nextId, nextCus, regCount, reg>>
    /\ UNCHANGED <<coVars, lkVars, bkVars, gwProfile, files>>

\* outcomes of storageService.deleteFile: the storage is not configured, the
\* file is deleted when it exists, or exists() / delete() fails
DeleteFileOutcomes == {"unconfigured", "ok", "error"}

\* storageService.deleteFile throwing the failure of the storage
deleteFile_Throws(out, pending) ==
    IF out = "error" THEN AppError("Failed to delete file", 500) ELSE pending

\* storageService.deleteFile: a failure is logged, not thrown
deleteFile(out, pending) == pending

\* deleteAccount, lines 118-121 and storageService.deleteFile
DelAvatar(p) ==
    /\ cu[p].pc = "delAvatar"
    /\ LET url == cu[p].customer.profilePictureUrl
       IN  IF url = Undefined
           THEN /\ cu' = [cu EXCEPT ![p].pc = "delLocal"]
                /\ files' = files
           ELSE \E out \in DeleteFileOutcomes :
                  LET thrown == deleteFile(out, NoErr)
                  IN  /\ files' = IF out = "ok" THEN files \ {url} ELSE files
                      /\ cu' = [cu EXCEPT ![p].pc = IF thrown = NoErr THEN "delLocal" ELSE "done",
                                          ![p].thrown = thrown,
                                          ![p].calls = Append(@, CuCall("deleteFile", out = "ok"))]
    /\ UNCHANGED <<regVars, coVars, lkVars, bkVars, gwProfile>>

\* deleteAccount, lines 123-131: Customer.findByIdAndDelete, then the response
DelLocal(p) ==
    /\ cu[p].pc = "delLocal"
    /\ \E ok \in BOOLEAN :
         IF ok
         THEN /\ db' = {c \in db : c.id # cu[p].customer.id}
              /\ cu' = [cu EXCEPT ![p].pc = "done", ![p].status = 200,
                                  ![p].message = "Account deleted successfully",
                                  ![p].calls = Append(@, CuCall("findByIdAndDelete", TRUE))]
         ELSE /\ db' = db
              /\ cu' = [cu EXCEPT ![p].pc = "done",
                                  ![p].thrown = Err("MongoError", 0, "delete failed"),
                                  ![p].calls = Append(@, CuCall("findByIdAndDelete", FALSE))]
    /\ UNCHANGED <<gwCustomers, nextId, nextCus, regCount, reg>>
    /\ UNCHANGED <<coVars, lkVars, bkVars, gwProfile, files>>

\* request bodies of PATCH /profile
Bodies ==
    { NoKeys,
      [NoKeys EXCEPT !.name = "Bob"],
      [NoKeys EXCEPT !.name = ""],
      [NoKeys EXCEPT !.address = "2 Rd", !.phone = "222"],
      [NoKeys EXCEPT !.email = "evil@x.com", !.password = "pw2",
                     !.stripeCustomerId = "cus_B", !.profilePictureUrl = "url_2"],
      [NoKeys EXCEPT !.name = "Bob", !.email = "evil@x.com", !.stripeCustomerId = "cus_B"] }

CuRequest(op, token, tokenId, body) ==
    [CuOff EXCEPT !.pc = "auth", !.op = op, !.token = token, !.tokenId = tokenId,
                  !.body = body]

\* the requests of the first handler
CuRequests ==
    {CuRequest(op, t, 1, NoKeys) :
        op \in {"updateProfile", "deleteAccount"},
        t \in {"absent", "notBearer", "invalid", "expired"}}
    \cup {CuRequest("updateProfile", "valid", 1, b) : b \in Bodies}
    \cup {CuRequest("deleteAccount", "valid", id, NoKeys) : id \in {1, 3, 9}}
    \cup {CuRequest("updateProfile", "valid", 3, [NoKeys EXCEPT !.name = "Bob"])}

\* the requests of the handler that runs concurrently with it
CuRequests2 ==
    { CuRequest("updateProfile", "valid", 1, [NoKeys EXCEPT !.address = "3 Ave"]),
      CuRequest("deleteAccount", "valid", 1, NoKeys),
      CuRequest("updateProfile", "expired", 1, [NoKeys EXCEPT !.name = "Bob"]),
      CuRequest("deleteAccount", "invalid", 1, NoKeys) }

InitCustomer ==
    /\ db = {CustA, CustN}
    /\ nextId = 3
    /\ nextCus = 0
    /\ regCount = 0
    /\ reg = [p \in RegProcs |-> RegIdle]
    /\ InitGateway
    /\ co = [p \in CoProcs |-> CoOff]
    /\ gwSent = {}
    /\ lk = [q \in LkProcs |-> LkOff]
    /\ gwProfile = [c \in {"cus_A", "cus_B"} |->
                      [name |-> "Ann", phone |-> "111", address |-> "1 St"]]
    /\ files = {"url_1"}
    /\ bk = BkOff
    /\ \E r1 \in CuRequests, r2 \in CuRequests2 :
         cu = [p \in CuProcs |-> IF p = "u1" THEN r1 ELSE r2]

NextCustomer ==
    \E p \in CuProcs :
        \/ AuthenticateToken(p)
        \/ AuthFindById(p)
        \/ UpdateSave(p)
        \/ UpdateMirror(p)
        \/ DelBilling(p)
        \/ DelAvatar(p)
        \/ DelLocal(p)

SpecCustomer == InitCustomer /\ [][NextCustomer]_vars

----------------------------------------------------------------------------
(* Claims on the profile and account requests *)

CuOps(p) == [k \in 1..Len(cu[p].calls) |-> cu[p].calls[k].op]

\* the calls a deleteAccount request makes for its customer, in order
ExpectedDel(p) ==
    (IF cu[p].customer.stripeCustomerId # Undefined THEN <<"deleteCustomer">> ELSE <<>>)
    \o (IF cu[p].customer.profilePictureUrl # Undefined THEN <<"deleteFile">> ELSE <<>>)
    \o <<"findByIdAndDelete">>

\* C15: deleteAccount calls the billing account's delete (when the customer
\* has a reference), then the avatar's delete (when it has one), then removes
\* the Customer; whatever the outcomes of the two external deletions, the
\* removal is issued, and when it succeeds the Customer is gone and the
\* request succeeds; the only error the request can end with is that of the
\* removal itself.
C15_DeleteAccountBestEffort ==
    \A p \in CuProcs :
        (cu[p].op = "deleteAccount" /\ cu[p].ran) =>
            /\ IsPrefix(CuOps(p), ExpectedDel(p))
            /\ cu[p].pc = "done" =>
                   /\ CuOps(p) = ExpectedDel(p)
                   /\ LET last == cu[p].calls[Len(cu[p].calls)]
                      IN  IF last.ok
                          THEN /\ cu[p].status = 200 /\ cu[p].thrown = NoErr
                               /\ \A c \in db : c.id # cu[p].customer.id
                          ELSE /\ cu[p].status = 0 /\ cu[p].thrown.type = "MongoError"

\* the billing account's delete and the avatar's delete both failed, the
\* Customer was removed and the request succeeded
C15_Witness ==
    \E p \in CuProcs :
        /\ cu[p].op = "deleteAccount" /\ cu[p].pc = "done" /\ cu[p].status = 200
        /\ Len(cu[p].calls) = 3
        /\ ~cu[p].calls[1].ok /\ ~cu[p].calls[2].ok /\ cu[p].calls[3].ok
        /\ "cus_A" \in gwCustomers /\ "url_1" \in files
        /\ \A c \in db : c.id # 1

\* C16: updateProfile saves the Customer before it calls the gateway; the
\* gateway update is issued only when name, phone or address is among the
\* updates applied; and the step in which the gateway update ends, failed or
\* not, leaves the persisted Customers as they are.
C16_UpdateLocalFirst ==
    /\ [](\A p \in CuProcs :
            (cu[p].op = "updateProfile" /\ cu[p].ran) =>
                /\ IsPrefix(CuOps(p), <<"save", "updateCustomer">>)
                /\ Len(cu[p].calls) = 2 =>
                       /\ cu[p].calls[1].ok = TRUE
                       /\ Keys(cu[p].body) \cap {"name", "phone", "address"} # {}
                       /\ Keys(cu[p].updates) \cap {"name", "phone", "address"} # {}
                /\ (cu[p].pc = "done" /\ Len(cu[p].calls) = 2 /\ cu[p].calls[2].ok = FALSE) =>
                       /\ cu[p].thrown = AppError("Failed to update Stripe customer", 500)
                       /\ \A c \in db : c.id = cu[p].customer.id =>
                              \A k \in Keys(cu[p].updates) :
                                  \/ c[k] = cu[p].updates[k]
                                  \/ \E q \in CuProcs \ {p} :
                                         /\ cu[q].op = "updateProfile"
                                         /\ k \in Keys(cu[q].updates)
                                         /\ c[k] = cu[q].updates[k])
    /\ [][\A p \in CuProcs :
            (cu[p].pc = "mirror" /\ cu'[p] # cu[p]) => db' = db]_vars

\* the name was saved, the gateway update failed: the Customer has the new
\* name, the billing account the old one
C16_Witness ==
    \E p \in CuProcs :
        /\ cu[p].op = "updateProfile" /\ cu[p].pc = "done" /\ cu[p].ran
        /\ cu[p].body.name = "Bob" /\ cu[p].customer.id = 1
        /\ Len(cu[p].calls) = 2 /\ cu[p].calls[2].ok = FALSE
        /\ cu[p].thrown.status = 500
        /\ \E c \in db : c.id = 1 /\ c.name = "Bob"
        /\ gwProfile["cus_A"].name = "Ann"

TokenFailure(p) ==
    CASE cu[p].token \in {"absent", "notBearer"} -> "missing"
      [] cu[p].token = "invalid" -> "invalid"
      [] cu[p].token = "expired" -> "expired"
      [] OTHER -> "none"

\* C18: authenticateToken answers 401 for a missing, an invalid and an
\* expired token and does not run the handler; the messages of two different
\* failures differ.
C18_DistinctAuthMessages ==
    /\ \A p \in CuProcs :
           TokenFailure(p) # "none" =>
               /\ ~cu[p].ran
               /\ cu[p].calls = <<>>
               /\ cu[p].pc = "done" => cu[p].status = 401 /\ cu[p].message # ""
    /\ \A p, q \in CuProcs :
           (/\ cu[p].pc = "done" /\ cu[q].pc = "done"
            /\ TokenFailure(p) # "none" /\ TokenFailure(q) # "none"
            /\ TokenFailure(p) # TokenFailure(q))
           => cu[p].message # cu[q].message

----------------------------------------------------------------------------
(* Checkout requests at the boundaries of their inputs *)

\* values of the currency field of a body
Currencies ==
    {JUndef, JNull, JStr(""), JStr("us"), JStr("usd"), JStr("eur"), JStr("usdx"),
     JNum(840), JBool(TRUE), JArr(<<>>)}

\* values of the items field of a body
ItemsValues ==
    {JUndef, JNull, JStr(""), JArr(<<>>), JArr(<<Item(1, JUndef)>>)}

\* requests of both flows with every currency, multi-item requests with every
\* items value, by a customer with and by a customer without billing account
BoundaryRequests ==
    {WithCurrency(Request("pi", DocA, FlatBody("pm_A", JNum(1), JUndef)), cur) :
        cur \in Currencies}
    \cup {WithCurrency(Request("pw", DocA,
                ItemsBody("pm_A", JArr(<<Item(1, JUndef)>>), JUndef)), cur) :
            cur \in Currencies}
    \cup {Request("pw", c, ItemsBody("pm_A", i, JUndef)) :
            c \in {DocA, DocN}, i \in ItemsValues}
    \cup {WithCurrency(Request("pw", DocA, ItemsBody("pm_A", JArr(<<>>), JUndef)), JStr("us")),
          Request("pi", DocN, FlatBody("pm_A", JNum(1), JUndef)),
          Request("pi", DocN, FlatBody("pm_A", JNum(0), JUndef)),
          Request("pw", DocA, ItemsBody("pm_new", JArr(<<Item(1, JUndef)>>), JStr("true")))}

\* one of these requests, served while a checkout of customer B is in progress
InitBoundary ==
    /\ db = {DocA, DocB, DocN}
    /\ nextId = 3
    /\ nextCus = 0
    /\ regCount = 0
    /\ reg = [p \in RegProcs |-> RegIdle]
    /\ InitGateway
    /\ \E r1 \in BoundaryRequests :
         co = [p \in CoProcs |->
                 IF p = "c1" THEN Arrived(r1)
                 ELSE Arrived(Request("pi", DocB, FlatBody("pm_B", JNum(1), JUndef)))]
    /\ gwSent = {}
    /\ lk = [q \in LkProcs |-> LkOff]
    /\ CuIdle
    /\ bk = BkOff

SpecBoundary == InitBoundary /\ [][NextCheckout]_vars

BadCurrency(p) ==
    /\ co[p].flow \in {"pi", "pw"}
    /\ co[p].body.currency.t # "undefined"
    /\ ~(co[p].body.currency.t = "string" /\ StrLen(co[p].body.currency.s) = 3)

\* C24: in both checkout flows a request whose currency is supplied and is not
\* a string of exactly 3 characters (shorter, longer, empty, not a string,
\* null) issues no gateway call and ends with a 400; and the currency of the
\* attempt is the default "usd" only when the body has none.
C24_BadCurrencyRejected ==
    \A p \in CoProcs :
        /\ BadCurrency(p) =>
               /\ co[p].calls = <<>>
               /\ co[p].pc \in {"validate", "done"}
               /\ co[p].pc = "done" => co[p].thrown.status = 400
        /\ (co[p].data.currency = JStr("usd") /\ co[p].body.currency # JStr("usd")) =>
               co[p].body.currency = JUndef

----------------------------------------------------------------------------
(* A checkout that follows a checkout on the same billing account *)

\* a request that has not arrived yet
Queued(r) == [Arrived(r) EXCEPT !.pc = "queued"]

\* the request of p arrives once the other request has been answered
CoArrive(p) ==
    /\ co[p].pc = "queued"
    /\ \A q \in CoProcs \ {p} : co[q].pc = "done"
    /\ co' = [co EXCEPT ![p].pc = "validate"]
    /\ UNCHANGED <<gwPM, gwDefault, gwItems, gwInvoices>>
    /\ UNCHANGED <<regVars, lkVars, bkVars, cuVars>>

\* the first checkout of customer A
SequelFirst ==
    {Request("pi", DocA, FlatBody("pm_A", JNum(a), JUndef)) : a \in 1..MaxAmount}
    \cup {Request("pw", DocA, ItemsBody(ps[1], JArr(<<Item(1, JUndef), Item(1, JNum(2))>>), ps[2])) :
            ps \in {<<"pm_A", JUndef>>, <<"pm_new", JStr("true")>>}}

\* the checkout that follows it, of customer A or of customer B
SequelSecond ==
    {Request("pi", DocA, FlatBody("pm_A", JNum(1), JUndef)),
     Request("pw", DocA, ItemsBody("pm_A", JArr(<<Item(1, JUndef), Item(MaxAmount, JUndef)>>), JUndef)),
     Request("pi", DocB, FlatBody("pm_B", JNum(1), JUndef))}

InitSequel ==
    /\ db = {DocA, DocB, DocN}
    /\ nextId = 3
    /\ nextCus = 0
    /\ regCount = 0
    /\ reg = [p \in RegProcs |-> RegIdle]
    /\ InitGateway
    /\ \E r1 \in SequelFirst, r2 \in SequelSecond :
         co = [p \in CoProcs |-> IF p = "c1" THEN Arrived(r1) ELSE Queued(r2)]
    /\ gwSent = {}
    /\ lk = [q \in LkProcs |-> LkOff]
    /\ CuIdle
    /\ bk = BkOff

NextSequel ==
    \E p \in CoProcs :
        \/ CoArrive(p)
        \/ CoValidate(p)
        \/ CreatePaymentController(p)
        \/ CreatePaymentWithItemsController(p)
        \/ Attach(p)
        \/ SetDefault(p)
        \/ CreateItem(p)
        \/ IssueItems(p)
        \/ \E k \in 1..Len(co[p].calls) : ItemDone(p, k)
        \/ CreateInvoice(p)
        \/ FinalizeInvoice(p)
        \/ PayInvoice(p)
        \/ RetrieveIntent(p)
        \/ CoRespond(p)
        \/ CoCatch(p)

SpecSequel == InitSequel /\ [][NextSequel]_vars

\* the attempt of q has failed after it created a line item and before its
\* invoice was paid
FailedWithItems(q) ==
    /\ co[q].pc = "done" /\ Failed(q)
    /\ \E i \in gwItems : i.by = q
    /\ co[q].inv # 0 => gwInvoices[co[q].inv].status # "paid"

\* C25: when a checkout attempt has failed after creating its line items and
\* before its invoice was paid, a later checkout attempt on the same billing
\* account that succeeds is charged exactly the total of its own line items.
C25_FailedAttemptHarmless ==
    (/\ FailedWithItems("c1")
     /\ co["c2"].status = 200
     /\ co["c2"].data.customerId = co["c1"].data.customerId)
    => gwInvoices[co["c2"].inv].amount_paid = RequestTotal("c2")

\* the positions of the line-item creations in the log of p
ItemCalls(p) == {k \in 1..Len(co[p].calls) : co[p].calls[k].op = "item"}

\* C26: in the multi-item flow the invoice-creation call is issued only when
\* every line-item creation of the attempt has completed successfully, in
\* whatever order they completed; when one of them has failed, the attempt
\* issues no invoice-creation call and creates no invoice.
C26_ItemsBeforeInvoice ==
    \A p \in CoProcs :
        co[p].flow = "pw" =>
            /\ ((\E k \in 1..Len(co[p].calls) : co[p].calls[k].op = "createInvoice")
                    \/ co[p].inv # 0
                    \/ \E id \in 1..Len(gwInvoices) : gwInvoices[id].by = p)
               => /\ Cardinality(ItemCalls(p)) = Len(co[p].data.items)
                  /\ \A k \in ItemCalls(p) : co[p].calls[k].out = "ok"
            /\ (\E k \in ItemCalls(p) : co[p].calls[k].out \in {"card", "api"})
               => /\ \A k \in 1..Len(co[p].calls) : co[p].calls[k].op # "createInvoice"
                  /\ co[p].inv = 0
                  /\ \A id \in 1..Len(gwInvoices) : gwInvoices[id].by # p

\* the second line-item creation has completed while the first is in flight,
\* and no invoice-creation call has been issued
C26_Witness ==
    \E p \in CoProcs :
        /\ co[p].flow = "pw" /\ co[p].pc = "itemsWait"
        /\ \E j, k \in ItemCalls(p) :
               /\ j < k
               /\ co[p].calls[j].out = "pending" /\ co[p].calls[k].out = "ok"
        /\ co[p].inv = 0

----------------------------------------------------------------------------
(* Accounts: register together with updateProfile and deleteAccount of the *)
(* customers registered                                                     *)

\* a body that names the billing account of another customer
StealBody == [NoKeys EXCEPT !.name = "Bob", !.stripeCustomerId = "cus_A"]

\* PATCH /profile of the customer about to register (id 4) or of the customer
\* without billing account (id 3)
AcRequests == {CuRequest("updateProfile", "valid", id, StealBody) : id \in {3, 4}}

\* DELETE /account of one of them
AcRequests2 == {CuRequest("deleteAccount", "valid", id, NoKeys) : id \in {3, 4}}

\* two customers have registered (one of them before billing accounts were
\* kept); further registrations arrive while a profile update and an account
\* deletion are served
InitAccount ==
    /\ db = {CustA, CustN}
    /\ nextId = 3
    /\ nextCus = 0
    /\ regCount = Cardinality({CustA, CustN})
    /\ reg = [p \in RegProcs |-> RegIdle]
    /\ InitGateway
    /\ co = [p \in CoProcs |-> CoOff]
    /\ gwSent = {}
    /\ lk = [q \in LkProcs |-> LkOff]
    /\ gwProfile = [c \in {"cus_A", "cus_B"} \cup {CusIds[k] : k \in 1..Len(CusIds)} |->
                      [name |-> "Ann", phone |-> "111", address |-> "1 St"]]
    /\ files = {"url_1"}
    /\ bk = BkOff
    /\ \E r1 \in AcRequests, r2 \in AcRequests2 :
         cu = [p \in CuProcs |-> IF p = "u1" THEN r1 ELSE r2]

NextAccount ==
    \/ \E p \in RegProcs :
         \/ RegStart(p)
         \/ RegFindOne(p)
         \/ RegCreateCustomer(p)
         \/ RegSave(p)
         \/ RegToken(p)
         \/ RegRespond(p)
         \/ RegCleanup(p)
    \/ \E p \in CuProcs :
         \/ AuthenticateToken(p)
         \/ AuthFindById(p)
         \/ UpdateSave(p)
         \/ UpdateMirror(p)
         \/ DelBilling(p)
         \/ DelAvatar(p)
         \/ DelLocal(p)

SpecAccount == InitAccount /\ [][NextAccount]_vars

\* C22: in every reachable state, whatever register, updateProfile and
\* deleteAccount requests have run and however their steps interleaved, two
\* persisted Customers that hold a billing account reference hold different
\* ones.
C22_UniqueBillingReference ==
    \A c, d \in db :
        (c.stripeCustomerId # Undefined /\ c.stripeCustomerId = d.stripeCustomerId)
            => c = d

\* a customer registered, then sent a profile update naming the billing account
\* of another customer, and a third customer deleted its account: the two
\* persisted Customers hold their own references
C22_Witness ==
    /\ \E c \in db : c.id = 4 /\ c.name = "Bob" /\ c.stripeCustomerId = "cus_1"
    /\ \E c \in db : c.id = 1 /\ c.stripeCustomerId = "cus_A"
    /\ \A c \in db : c.id # 3
    /\ cu["u1"].pc = "done" /\ cu["u1"].status = 200 /\ cu["u1"].tokenId = 4
    /\ cu["u2"].pc = "done" /\ cu["u2"].status = 200 /\ cu["u2"].tokenId = 3

----------------------------------------------------------------------------
(* Claims on the billing account update of updateProfile *)

\* the gateway update of the request of p has been issued
MirrorIssued(p) ==
    /\ cu[p].op = "updateProfile" /\ cu[p].ran
    /\ Len(cu[p].calls) = 2 /\ cu[p].calls[2].op = "updateCustomer"

\* C27: the billing account update issued by updateProfile carries only the
\* fields among name, phone and address that the request changed.
C27_OnlyChangedFieldsSent ==
    \A p \in CuProcs :
        MirrorIssued(p) => cu[p].sent \subseteq Keys(cu[p].updates)

\* C28: when updateProfile has saved the Customer and the gateway update
\* fails, the request still succeeds: it is answered 200 and no error is
\* thrown to the caller.
C28_MirrorBestEffort ==
    \A p \in CuProcs :
        (MirrorIssued(p) /\ cu[p].pc = "done" /\ cu[p].calls[1].ok = TRUE
            /\ cu[p].calls[2].ok = FALSE)
        => cu[p].status = 200 /\ cu[p].thrown = NoErr

----------------------------------------------------------------------------
(* Scheduled backups: BackupService.performBackup and backupCollection *)

MaxCollections == 3

Collections == {"customers", "orders"}

\* the lists of collection names a run can be started with
CollectionLists ==
    UNION {[1..n -> Collections] : n \in 0..MaxCollections}

\* how the backup of one collection can go: no database connection, storage
\* not configured, the read of the collection throws, the upload rejects, or
\* the compressed dump is stored
BackupOutcomes == {"notConnected", "notConfigured", "findFailed", "uploadFailed", "uploaded"}

\* the outcomes that are exceptions raised inside the try block
BackupThrown == {"findFailed", "uploadFailed"}

\* the name of the file the k-th backup of a run is stored under
BackupFile(k) == "backup_" \o ToString(k)

\* a backupCollection without its catch clause: the failure reaches the caller
backupCollection_NoCatch(out) ==
    CASE out = "notConnected" -> "error"
      [] out = "notConfigured" -> "warn"
      [] out \in BackupThrown -> "thrown"
      [] OTHER -> "info"

\* backupCollection, by the level of the log line it ends with: the two early
\* returns log an error and a warning, the catch clause logs an error and
\* rethrows nothing, a stored dump is logged at info
backupCollection(out) ==
    CASE out = "notConnected" -> "error"
      [] out = "notConfigured" -> "warn"
      [] out \in BackupThrown -> "error"
      [] OTHER -> "info"

\* one iteration of the loop of performBackup: backupCollection on the next
\* collection of the list
BackupCollection ==
    /\ bk.pc = "loop"
    /\ bk.done < Len(bk.collections)
    /\ \E out \in BackupOutcomes :
         /\ out = "notConfigured" => ~bk.configured
         /\ out \in BackupThrown \cup {"uploaded"} => bk.configured
         /\ LET k == bk.done + 1
                level == backupCollection(out)
            IN  /\ files' = IF out = "uploaded" THEN files \cup {BackupFile(k)} ELSE files
                /\ bk' = IF level = "thrown"
                           THEN [bk EXCEPT !.pc = "done", !.raised = TRUE]
                           ELSE [bk EXCEPT !.done = k,
                                           !.log = Append(@, [collection |-> bk.collections[k],
                                                              out |-> out,
                                                              level |-> level])]
    /\ UNCHANGED <<regVars, coVars, lkVars, gwProfile, cu>>

\* the end of performBackup: the loop is over, deleteOldBackups only logs
BackupFinish ==
    /\ bk.pc = "loop"
    /\ bk.done = Len(bk.collections)
    /\ bk' = [bk EXCEPT !.pc = "done"]
    /\ UNCHANGED <<regVars, coVars, lkVars, cuVars>>

InitBackup ==
    /\ db = {CustA, CustN}
    /\ nextId = 3
    /\ nextCus = 0
    /\ regCount = 0
    /\ reg = [p \in RegProcs |-> RegIdle]
    /\ InitGateway
    /\ co = [p \in CoProcs |-> CoOff]
    /\ gwSent = {}
    /\ lk = [q \in LkProcs |-> LkOff]
    /\ gwProfile = <<>>
    /\ files = {"url_1"}
    /\ cu = [p \in CuProcs |-> CuOff]
    /\ \E cs \in CollectionLists, configured \in BOOLEAN :
         bk = [pc |-> "loop", collections |-> cs, done |-> 0, configured |-> configured,
               log |-> <<>>, raised |-> FALSE]

NextBackup ==
    \/ BackupCollection
    \/ BackupFinish

SpecBackup == InitBackup /\ [][NextBackup]_vars

\* C31: a backup run attempts the backup of every collection of its list, in
\* order, whatever the outcome of the earlier ones: the log of the run is at
\* every moment the list up to the current position, a finished run has gone
\* through the whole list, every failure is logged as an error, and the run
\* never raises.
C31_BackupRunNeverAborts ==
    /\ ~bk.raised
    /\ Len(bk.log) = bk.done
    /\ \A k \in 1..Len(bk.log) :
         /\ bk.log[k].collection = bk.collections[k]
         /\ bk.log[k].out \in BackupThrown \cup {"notConnected"} => bk.log[k].level = "error"
    /\ bk.pc = "done" => bk.done = Len(bk.collections)

C31_Witness ==
    /\ bk.pc = "done"
    /\ Len(bk.collections) >= 2
    /\ bk.log[1].out = "uploadFailed"
    /\ bk.log[2].out = "uploaded"
    /\ BackupFile(2) \in files

----------------------------------------------------------------------------
(* Avatar upload: customerController.uploadProfilePicture *)

\* the public url of the file a handler uploads: the name carries the
\* customer's id, the time of the upload and the original name
NewUrl(p) == "pic_" \o p

\* uploadProfilePicture, lines 57-69: without a file the request is refused;
\* the file the document refers to is deleted from storage first
UpDelete(p) ==
    /\ cu[p].pc = "upDelete"
    /\ LET url == cu[p].customer.profilePictureUrl
       IN  IF ~cu[p].file
           THEN /\ cu' = [cu EXCEPT ![p].pc = "done",
                                    ![p].thrown = AppError("No file uploaded", 400)]
                /\ files' = files
           ELSE IF url \in {Undefined, Null, ""}
           THEN /\ cu' = [cu EXCEPT ![p].pc = "upUpload"]
                /\ files' = files
           ELSE \E out \in DeleteFileOutcomes :
                  LET thrown == deleteFile(out, NoErr)
                  IN  /\ files' = IF out = "ok" THEN files \ {url} ELSE files
                      /\ cu' = [cu EXCEPT ![p].pc = IF thrown = NoErr THEN "upUpload" ELSE "done",
                                          ![p].thrown = thrown,
                                          ![p].calls = Append(@, CuCall("deleteFile", out = "ok"))]
    /\ UNCHANGED <<regVars, coVars, lkVars, bkVars, gwProfile>>

\* outcomes of storageService.uploadFile: the storage is not configured, the
\* write stream fails, or the file is stored and its public url returned
UploadFileOutcomes == {"unconfigured", "error", "ok"}

\* uploadProfilePicture, lines 72-75 and storageService.uploadFile
UpUpload(p) ==
    /\ cu[p].pc = "upUpload"
    /\ \E out \in UploadFileOutcomes :
         /\ out = "unconfigured" =>
              ~\E k \in 1..Len(cu[p].calls) : cu[p].calls[k] = CuCall("deleteFile", TRUE)
         /\ files' = IF out = "ok" THEN files \cup {NewUrl(p)} ELSE files
         /\ cu' = [cu EXCEPT ![p].pc = IF out = "ok" THEN "upSave" ELSE "done",
                             ![p].thrown =
                                 IF out = "ok" THEN NoErr
                                 ELSE IF out = "error" THEN AppError("Failed to upload file", 500)
                                 ELSE AppError("Storage service not configured", 500),
                             ![p].calls = Append(@, CuCall("uploadFile", out = "ok"))]
    /\ UNCHANGED <<regVars, coVars, lkVars, bkVars, gwProfile>>

\* uploadProfilePicture, lines 78-86: the url is assigned to the document,
\* the document is saved (the modified path is written), the response is sent
UpSave(p) ==
    /\ cu[p].pc = "upSave"
    /\ LET customer == cu[p].customer
           assigned == [customer EXCEPT !.profilePictureUrl = NewUrl(p)]
           stored == {c \in db : c.id = customer.id}
           failed(type) ==
               [cu[p] EXCEPT !.pc = "done", !.customer = assigned,
                             !.calls = Append(@, CuCall("save", FALSE)),
                             !.thrown = Err(type, 0, "save failed")]
           saved ==
               [cu[p] EXCEPT !.pc = "done", !.customer = assigned,
                             !.calls = Append(@, CuCall("save", TRUE)),
                             !.status = 200]
       IN  \E ok \in BOOLEAN, lost \in BOOLEAN :
             IF ~ok
             THEN cu' = [cu EXCEPT ![p] = failed("MongoError")] /\ db' = db
             ELSE IF stored = {}
             THEN /\ cu' = [cu EXCEPT ![p] = IF lost THEN failed("DocumentNotFoundError")
                                              ELSE saved]
                  /\ db' = db
             ELSE /\ cu' = [cu EXCEPT ![p] = saved]
                  /\ db' = (db \ stored)
                           \cup {[c EXCEPT !.profilePictureUrl = NewUrl(p)] : c \in stored}
    /\ UNCHANGED <<gwCustomers, nextId, nextCus, regCount, reg>>
    /\ UNCHANGED <<coVars, lkVars, bkVars, gwProfile, files>>

\* POST /profile-picture requests: with and without a file, of the customer
\* with an avatar and of the one without
UpRequests ==
    {[CuRequest("uploadProfilePicture", t, id, NoKeys) EXCEPT !.file = f] :
        t \in {"valid", "expired"}, id \in {1, 3}, f \in BOOLEAN}

\* the requests of the handler that runs concurrently with it
UpRequests2 ==
    {[CuRequest("uploadProfilePicture", "valid", 1, NoKeys) EXCEPT !.file = f] :
        f \in BOOLEAN}

InitUpload ==
    /\ db = {CustA, CustN}
    /\ nextId = 3
    /\ nextCus = 0
    /\ regCount = 0
    /\ reg = [p \in RegProcs |-> RegIdle]
    /\ InitGateway
    /\ co = [p \in CoProcs |-> CoOff]
    /\ gwSent = {}
    /\ lk = [q \in LkProcs |-> LkOff]
    /\ gwProfile = [c \in {"cus_A", "cus_B"} |->
                      [name |-> "Ann", phone |-> "111", address |-> "1 St"]]
    /\ files = {"url_1"}
    /\ bk = BkOff
    /\ \E r1 \in UpRequests, r2 \in UpRequests2 :
         cu = [p \in CuProcs |-> IF p = "u1" THEN r1 ELSE r2]

NextUpload ==
    \E p \in CuProcs :
        \/ AuthenticateToken(p)
        \/ AuthFindById(p)
        \/ UpDelete(p)
        \/ UpUpload(p)
        \/ UpSave(p)

SpecUpload == InitUpload /\ [][NextUpload]_vars

\* C32: whatever uploadProfilePicture requests were served, failed ones
\* included, the avatar reference of every Customer that has one is the url of
\* a file that exists in storage.
C32_AvatarReferenceExists ==
    \A c \in db : c.profilePictureUrl \notin {Undefined, Null, ""} => c.profilePictureUrl \in files

----------------------------------------------------------------------------
(* Tokens of a deleted account *)

\* deleteAccount has removed the Customer with this id
Deleted(id) ==
    \E q \in CuProcs :
        /\ cu[q].op = "deleteAccount"
        /\ cu[q].ran
        /\ cu[q].pc = "done"
        /\ cu[q].status = 200
        /\ cu[q].customer.id = id

\* C33: once deleteAccount has removed a Customer, a request with a token
\* issued for it that reaches the look-up of authenticateToken afterwards ends
\* there: its handler does not run and it makes no gateway or storage call;
\* when the look-up answers, the response is 401 (a look-up that itself fails
\* is answered 500, as for any identity).
C33_DeletedIdentityRejected ==
    [][\A p \in CuProcs :
         (cu[p].pc = "findById" /\ Deleted(cu[p].tokenId) /\ cu'[p] # cu[p])
         => /\ cu'[p].pc = "done"
            /\ ~cu'[p].ran
            /\ cu'[p].calls = <<>>
            /\ cu'[p].thrown = NoErr
            /\ Response(cu'[p].status, cu'[p].message) \in
                 {Response(401, "Invalid token - user not found"), AuthCatch("MongoError")}]_vars

C33_Witness ==
    \E p \in CuProcs :
        /\ cu[p].token = "valid"
        /\ Deleted(cu[p].tokenId)
        /\ cu[p].pc = "done"
        /\ ~cu[p].ran
        /\ cu[p].status = 401
        /\ cu[p].message = "Invalid token - user not found"

====
